---------------------------- MODULE Spec2Model ----------------------------
(***************************************************************************)
(* A model of pytomoatt.src_rec.SrcRec: the four linked tables of a        *)
(* source/receiver catalog (src_points, rec_points, rec_points_cs,         *)
(* rec_points_cr), the two projections (sources, receivers) and the        *)
(* operations that mutate them.                                            *)
(*                                                                         *)
(* A pandas DataFrame is a sequence of rows (row order is observable:      *)
(* drop_duplicates, duplicated, cumcount and dict(zip(..)) depend on it).  *)
(* The index of src_points is the field idx of a source row.  Coordinates  *)
(* are integers (degrees, km).  A weight 1/sqrt(n) is stored as n.         *)
(***************************************************************************)
EXTENDS Integers, Sequences, FiniteSets, TLC

VARIABLES cat,      \* the catalog the operations are called on (self)
          other,    \* the argument of append (sr)
          err,      \* the exception the last operation raised, or "none"
          last,     \* the last operation and its arguments
          pre       \* cat and other as they were before the last operation

vars == <<cat, other, err, last, pre>>

-----------------------------------------------------------------------------
(* Bounds of the model. *)

\* the largest number of source lines of a file that is read
MaxSrc == 3

\* the same, where a second catalog is appended
MaxAppendSrc == 2

-----------------------------------------------------------------------------
(* Values. *)

\* what Series.map gives for a key the dict lacks, and what an aligned
\* assignment gives for a label the right-hand side lacks
NaN == -1

NoErr == "none"

Min(a, b) == IF a <= b THEN a ELSE b

-----------------------------------------------------------------------------
(* Sequences as tables. *)

Range(s) == {s[i] : i \in 1..Len(s)}

RECURSIVE KeepFrom(_, _, _)
KeepFrom(s, keep, i) ==
    IF i > Len(s) THEN <<>>
    ELSE (IF keep[i] THEN <<s[i]>> ELSE <<>>) \o KeepFrom(s, keep, i + 1)

\* df[mask]: the rows whose mask is true, in order
Mask(s, keep) == KeepFrom(s, keep, 1)

\* DataFrame.drop_duplicates() on the rows as given: the first of equal rows stays
drop_duplicates(s) ==
    Mask(s, [i \in 1..Len(s) |-> \A j \in 1..(i - 1) : s[j] # s[i]])

\* dict(zip(keys, vals))[k]: the last pair with that key wins; NaN when absent
MapLookup(keys, vals, k) ==
    LET hits == {i \in 1..Len(keys) : keys[i] = k}
    IN  IF hits = {} THEN NaN
        ELSE vals[CHOOSE i \in hits : \A j \in hits : j <= i]

\* groupby(key).cumcount(): the number of earlier rows of the same group;
\* rows whose key is NaN belong to no group
cumcount(keys) ==
    [i \in 1..Len(keys) |->
        IF keys[i] = NaN THEN NaN
        ELSE Cardinality({j \in 1..(i - 1) : keys[j] = keys[i]})]

\* the order of sort_values on one numeric key: NaN goes last
KeyLess(a, b) == a # NaN /\ (b = NaN \/ a < b)

\* lexicographic order on key tuples of one length
PairLess(p, q) ==
    \E i \in 1..Len(p) : KeyLess(p[i], q[i]) /\ \A j \in 1..(i - 1) : p[j] = q[j]

\* a stable sort by keys k[i] (a sequence of key tuples, one per row)
RECURSIVE StableSortFrom(_, _, _)
StableSortFrom(s, k, done) ==
    LET left == (1..Len(s)) \ done
    IN  IF left = {} THEN <<>>
        ELSE LET m == CHOOSE i \in left :
                        \A j \in left : j # i =>
                            (PairLess(k[i], k[j]) \/ (~PairLess(k[j], k[i]) /\ i < j))
             IN  <<s[m]>> \o StableSortFrom(s, k, done \cup {m})

sort_values(s, k) == StableSortFrom(s, k, {})

-----------------------------------------------------------------------------
(* update() and its steps.  A step that can raise returns [c, err]; the     *)
(* tables keep what was assigned before the exception.                      *)

SrcIdx(c) == {c.src_points[i].idx : i \in 1..Len(c.src_points)}

SrcEventIds(c) == {c.src_points[i].event_id : i \in 1..Len(c.src_points)}

Column(s, f) == [i \in 1..Len(s) |-> s[i][f]]

\* the rows of the sources projection that src_points and rec_points_cr give
SourceOfSrc(r) ==
    [event_id |-> r.event_id, evla |-> r.evla, evlo |-> r.evlo, evdp |-> r.evdp,
     weight |-> NaN]

SourceOfCr(r) ==
    [event_id |-> r.event_id2, evla |-> r.evla2, evlo |-> r.evlo2, evdp |-> r.evdp2,
     weight |-> NaN]

ReceiverOfRec(r) ==
    [staname |-> r.staname, stla |-> r.stla, stlo |-> r.stlo, stel |-> r.stel,
     weight |-> NaN]

ReceiverOfCs1(r) ==
    [staname |-> r.staname1, stla |-> r.stla1, stlo |-> r.stlo1, stel |-> r.stel1,
     weight |-> NaN]

ReceiverOfCs2(r) ==
    [staname |-> r.staname2, stla |-> r.stla2, stlo |-> r.stlo2, stel |-> r.stel2,
     weight |-> NaN]

MapSeq(s, F(_)) == [i \in 1..Len(s) |-> F(s[i])]

\* sources: src_points, then the paired sources of rec_points_cr, deduplicated
\* on (event_id, evla, evlo, evdp); receivers: rec_points, then staname1 of
\* rec_points_cs, then staname2, then rec_points_cr, deduplicated
update_unique_src_rec(c) ==
    [c EXCEPT
       !.sources = drop_duplicates(MapSeq(c.src_points, SourceOfSrc)
                                   \o MapSeq(c.rec_points_cr, SourceOfCr)),
       !.receivers = drop_duplicates(MapSeq(c.rec_points, ReceiverOfRec)
                                     \o MapSeq(c.rec_points_cs, ReceiverOfCs1)
                                     \o MapSeq(c.rec_points_cs, ReceiverOfCs2)
                                     \o MapSeq(c.rec_points_cr, ReceiverOfRec))]

\* records whose src_index is no index of src_points go; a common-receiver
\* record also goes when its event_id2 is no event_id of src_points
remove_rec_by_new_src(c) ==
    [c EXCEPT
       !.rec_points = SelectSeq(c.rec_points, LAMBDA r : r.src_index \in SrcIdx(c)),
       !.rec_points_cs = SelectSeq(c.rec_points_cs, LAMBDA r : r.src_index \in SrcIdx(c)),
       !.rec_points_cr = SelectSeq(c.rec_points_cr,
                                   LAMBDA r : /\ r.src_index \in SrcIdx(c)
                                              /\ r.event_id2 \in SrcEventIds(c))]

\* DataFrame.drop_duplicates() of src_points compares the columns, not the index
SrcColumns(r) == [r EXCEPT !.idx = 0]

\* src_points is first cut to the sources that have an absolute record; the
\* two concat steps then read that cut table
remove_src_by_new_rec(c) ==
    LET recIdx == Range(Column(c.rec_points, "src_index"))
        crIdx == Range(Column(c.rec_points_cr, "src_index"))
        csIdx == Range(Column(c.rec_points_cs, "src_index"))
        s1 == SelectSeq(c.src_points, LAMBDA r : r.idx \in recIdx)
        s2 == IF c.rec_points_cr # <<>>
              THEN s1 \o SelectSeq(s1, LAMBDA r : r.idx \in crIdx) ELSE s1
        s3 == IF c.rec_points_cs # <<>>
              THEN s2 \o SelectSeq(s2, LAMBDA r : r.idx \in csIdx) ELSE s2
        cols == MapSeq(s3, SrcColumns)
    IN  [c EXCEPT !.src_points =
            Mask(s3, [i \in 1..Len(s3) |-> \A j \in 1..(i - 1) : cols[j] # cols[i]])]

\* groupby("src_index").size() of a record table, at label k; NaN is no group
GroupSize(t, k) == Cardinality({i \in 1..Len(t) : t[i].src_index = k})

GroupLabels(t) == Range(Column(t, "src_index")) \ {NaN}

\* num_rec + num at the labels of num, NaN staying NaN
AddNum(src, t) ==
    [i \in 1..Len(src) |->
        IF src[i].idx \in GroupLabels(t) /\ src[i].num_rec # NaN
        THEN [src[i] EXCEPT !.num_rec = @ + GroupSize(t, src[i].idx)]
        ELSE src[i]]

\* a count of the absolute records alone
update_num_rec_abs_only(c) ==
    [c |-> [c EXCEPT !.src_points =
              [i \in 1..Len(c.src_points) |->
                  [c.src_points[i] EXCEPT
                      !.num_rec = GroupSize(c.rec_points, c.src_points[i].idx)]]],
     err |-> NoErr]

\* num_rec = the number of absolute records (NaN for a source with none),
\* then += the groups of rec_points_cr, then += the groups of rec_points_cs;
\* .loc[num.index] raises KeyError when a group label is no index of src_points
update_num_rec(c) ==
    LET s1 == [i \in 1..Len(c.src_points) |->
                 [c.src_points[i] EXCEPT !.num_rec =
                    IF GroupSize(c.rec_points, c.src_points[i].idx) = 0 THEN NaN
                    ELSE GroupSize(c.rec_points, c.src_points[i].idx)]]
        c1 == [c EXCEPT !.src_points = s1]
        crOk == GroupLabels(c.rec_points_cr) \subseteq SrcIdx(c)
        s2 == AddNum(s1, c.rec_points_cr)
        c2 == [c EXCEPT !.src_points = s2]
        csOk == GroupLabels(c.rec_points_cs) \subseteq SrcIdx(c)
        s3 == AddNum(s2, c.rec_points_cs)
    IN  IF ~crOk THEN [c |-> c1, err |-> "KeyError"]
        ELSE IF ~csOk THEN [c |-> c2, err |-> "KeyError"]
        ELSE [c |-> [c EXCEPT !.src_points = s3], err |-> NoErr]

\* the new label of every source: the position in the sources projection of
\* the (last) row with its event_id
NewIndex(c) ==
    LET ids == Column(c.sources, "event_id")
        pos == [i \in 1..Len(c.sources) |-> i - 1]
    IN  [i \in 1..Len(c.src_points) |-> MapLookup(ids, pos, c.src_points[i].event_id)]

\* src_index of every table is mapped from the old label to the new one,
\* src_index2 from event_id2; then rec_index of rec_points and rec_points_cr
\* and rec_index1 of rec_points_cs are counted again per source
reset_index(c) ==
    LET new_index == NewIndex(c)
        old == Column(c.src_points, "idx")
        evs == Column(c.src_points, "event_id")
        rec1 == [i \in 1..Len(c.rec_points) |->
                   [c.rec_points[i] EXCEPT
                      !.src_index = MapLookup(old, new_index, @)]]
        cs1 == [i \in 1..Len(c.rec_points_cs) |->
                   [c.rec_points_cs[i] EXCEPT
                      !.src_index = MapLookup(old, new_index, @)]]
        cr1 == [i \in 1..Len(c.rec_points_cr) |->
                   [c.rec_points_cr[i] EXCEPT
                      !.src_index = MapLookup(old, new_index, @),
                      !.src_index2 = MapLookup(evs, new_index, c.rec_points_cr[i].event_id2)]]
        recN == cumcount(Column(rec1, "src_index"))
        csN == cumcount(Column(cs1, "src_index"))
        crN == cumcount(Column(cr1, "src_index"))
    IN  [c EXCEPT
           !.src_points = [i \in 1..Len(c.src_points) |->
                             [c.src_points[i] EXCEPT !.idx = new_index[i]]],
           !.rec_points = [i \in 1..Len(rec1) |-> [rec1[i] EXCEPT !.rec_index = recN[i]]],
           !.rec_points_cs = [i \in 1..Len(cs1) |-> [cs1[i] EXCEPT !.rec_index1 = csN[i]]],
           !.rec_points_cr = [i \in 1..Len(cr1) |-> [cr1[i] EXCEPT !.rec_index = crN[i]]]]

\* ~duplicated(keep="first") on event_id, then update_num_rec
remove_src_by_duplicate_event_id(c) ==
    LET evs == Column(c.src_points, "event_id")
    IN  update_num_rec(
          [c EXCEPT !.src_points =
             Mask(c.src_points,
                  [i \in 1..Len(evs) |-> \A j \in 1..(i - 1) : evs[j] # evs[i]])])

\* the sorts that end update()
SortTables(c) ==
    [c EXCEPT
       !.src_points = sort_values(@, [i \in 1..Len(@) |-> <<@[i].idx, 0>>]),
       !.rec_points = sort_values(@, [i \in 1..Len(@) |-> <<@[i].src_index, @[i].rec_index>>]),
       !.rec_points_cr = sort_values(@, [i \in 1..Len(@) |-> <<@[i].src_index, @[i].rec_index>>]),
       !.rec_points_cs = sort_values(@, [i \in 1..Len(@) |-> <<@[i].src_index, @[i].rec_index1>>])]

update(c) ==
    LET c3 == remove_src_by_new_rec(remove_rec_by_new_src(update_unique_src_rec(c)))
        r4 == update_num_rec(c3)
        r6 == remove_src_by_duplicate_event_id(reset_index(r4.c))
    IN  IF r4.err # NoErr THEN r4
        ELSE IF r6.err # NoErr THEN r6
        ELSE [c |-> SortTables(r6.c), err |-> NoErr]

-----------------------------------------------------------------------------
(* The catalogs read() returns for well-formed files.  A file is described *)
(* by its source lines (location, the stations that recorded the source,   *)
(* event_id) and by whether it carries the common-source and the           *)
(* common-receiver lines of all its pairs.                                 *)

StaNames == <<"A", "B">>

\* <<stla, stlo, stel>> of a station
StaLoc(n) == IF n = "A" THEN <<0, 0, 0>> ELSE <<5, 7, 0>>

\* <<evla, evlo, evdp>> a source line may carry
SrcLocs == {<<0, 0, 5>>, <<6, 8, 50>>}

StaSets == {<<"B">>, <<"A", "B">>}

EventName(i) == IF i = 1 THEN "e1" ELSE IF i = 2 THEN "e2" ELSE IF i = 3 THEN "e3" ELSE "e9"

\* the travel time the file gives source line i at a station
TravelTime(i, n) == 10 * i + (IF n = "A" THEN 1 ELSE 4)

SrcLine == [loc : SrcLocs, stas : StaSets, event_id : {"e1", "e2", "e3", "e9"}]

\* the files of 1..max source lines: event ids e1, e2, ... in order, the last
\* line possibly repeating the event_id of the first
Files(max) ==
    {f \in [lines : UNION {[1..n -> SrcLine] : n \in 1..max},
            cs : BOOLEAN, cr : BOOLEAN, fname : {"fa"}] :
        \A i \in 1..Len(f.lines) :
            \/ f.lines[i].event_id = EventName(i)
            \/ i = Len(f.lines) /\ i > 1 /\ f.lines[i].event_id = "e1"}

RECURSIVE Flatten(_)
Flatten(ss) == IF ss = <<>> THEN <<>> ELSE Head(ss) \o Flatten(Tail(ss))

FileRecRows(f) ==
    Flatten([i \in 1..Len(f.lines) |->
        [k \in 1..Len(f.lines[i].stas) |->
            LET n == f.lines[i].stas[k]
            IN  [src_index |-> i - 1, rec_index |-> k - 1, staname |-> n,
                 stla |-> StaLoc(n)[1], stlo |-> StaLoc(n)[2], stel |-> StaLoc(n)[3],
                 phase |-> "P", tt |-> TravelTime(i, n), weight |-> 1, fname |-> "",
                 dist_deg |-> NaN, az |-> NaN, baz |-> NaN]]])

\* one common-source line per source line that lists both stations
FileCsRows(f) ==
    IF ~f.cs THEN <<>>
    ELSE Flatten([i \in 1..Len(f.lines) |->
        IF Len(f.lines[i].stas) < 2 THEN <<>>
        ELSE << [src_index |-> i - 1,
                 rec_index1 |-> 0, staname1 |-> "A",
                 stla1 |-> StaLoc("A")[1], stlo1 |-> StaLoc("A")[2], stel1 |-> StaLoc("A")[3],
                 rec_index2 |-> 1, staname2 |-> "B",
                 stla2 |-> StaLoc("B")[1], stlo2 |-> StaLoc("B")[2], stel2 |-> StaLoc("B")[3],
                 phase |-> "P,cs",
                 tt |-> TravelTime(i, "A") - TravelTime(i, "B"), weight |-> 1] >>])

HasSta(f, i, n) == \E k \in 1..Len(f.lines[i].stas) : f.lines[i].stas[k] = n

\* one common-receiver line per station and pair i < j of source lines that
\* list it, under source line i
FileCrPairs(f) ==
    Flatten([i \in 1..Len(f.lines) |->
        Flatten([s \in 1..Len(StaNames) |->
            Flatten([j \in 1..Len(f.lines) |->
                IF i < j /\ HasSta(f, i, StaNames[s]) /\ HasSta(f, j, StaNames[s])
                THEN << <<i, j, StaNames[s]>> >> ELSE <<>>])])])

FileCrRows(f) ==
    IF ~f.cr THEN <<>>
    ELSE LET prs == FileCrPairs(f)
             n == cumcount([k \in 1..Len(prs) |-> prs[k][1]])
         IN  [k \in 1..Len(prs) |->
                LET i == prs[k][1]
                    j == prs[k][2]
                    st == prs[k][3]
                IN  [src_index |-> i - 1, rec_index |-> n[k], staname |-> st,
                     stla |-> StaLoc(st)[1], stlo |-> StaLoc(st)[2], stel |-> StaLoc(st)[3],
                     src_index2 |-> j - 1, event_id2 |-> f.lines[j].event_id,
                     evla2 |-> f.lines[j].loc[1], evlo2 |-> f.lines[j].loc[2],
                     evdp2 |-> f.lines[j].loc[3],
                     phase |-> "P,cr",
                     tt |-> TravelTime(i, st) - TravelTime(j, st), weight |-> 1]]

FileSrcRows(f) ==
    [i \in 1..Len(f.lines) |->
        [idx |-> i - 1, origin_time |-> i,
         evla |-> f.lines[i].loc[1], evlo |-> f.lines[i].loc[2], evdp |-> f.lines[i].loc[3],
         mag |-> 0,
         num_rec |-> GroupSize(FileRecRows(f), i - 1) + GroupSize(FileCsRows(f), i - 1)
                     + GroupSize(FileCrRows(f), i - 1),
         event_id |-> f.lines[i].event_id, weight |-> 1, fname |-> ""]]

\* read(fname) of a file without src_only: the four tables, then
\* update_unique_src_rec()
read(f) ==
    update_unique_src_rec(
        [type |-> "SrcRec", src_only |-> FALSE, fnames |-> <<f.fname>>,
         has_fname |-> FALSE, has_distaz |-> FALSE,
         src_points |-> FileSrcRows(f), rec_points |-> FileRecRows(f),
         rec_points_cs |-> FileCsRows(f), rec_points_cr |-> FileCrRows(f),
         sources |-> <<>>, receivers |-> <<>>])

NoCatalog ==
    [type |-> "none", src_only |-> FALSE, fnames |-> <<>>, has_fname |-> FALSE,
     has_distaz |-> FALSE, src_points |-> <<>>, rec_points |-> <<>>, rec_points_cs |-> <<>>,
     rec_points_cr |-> <<>>, sources |-> <<>>, receivers |-> <<>>]

-----------------------------------------------------------------------------
(* The selections. *)

\* region = <<lon1, lon2, lat1, lat2>>, bounds included
InBox(lon, lat, region) ==
    lon >= region[1] /\ lon <= region[2] /\ lat >= region[3] /\ lat <= region[4]

\* what select_by_box_region does before it calls update(): the sources in the
\* region stay, the records of the others go, and of the remaining absolute
\* records those whose station is in the region stay
BoxRegionCut(c, region) ==
    LET c1 == [c EXCEPT !.src_points =
                 SelectSeq(@, LAMBDA r : InBox(r.evlo, r.evla, region))]
        c2 == remove_rec_by_new_src(c1)
    IN  [c2 EXCEPT !.rec_points =
           SelectSeq(@, LAMBDA r : InBox(r.stlo, r.stla, region))]

select_by_box_region(c, region) == update(BoxRegionCut(c, region))

DepthCut(c, dep_min_max) ==
    [c EXCEPT !.src_points =
        SelectSeq(@, LAMBDA r : r.evdp >= dep_min_max[1] /\ r.evdp <= dep_min_max[2])]

select_by_depth(c, dep_min_max) == update(DepthCut(c, dep_min_max))

RecsCut(c, rec_list) ==
    [c EXCEPT !.rec_points = SelectSeq(@, LAMBDA r : r.staname \notin rec_list)]

remove_specified_recs(c, rec_list) == update(RecsCut(c, rec_list))

-----------------------------------------------------------------------------
(* Box weighting of the sources. *)

\* int(x / d) for d > 0: Python's int() drops the fraction
IntQuot(x, d) == IF x >= 0 THEN x \div d ELSE -((-x) \div d)

EvtGroup(r, d_deg, d_km) ==
    <<IntQuot(r.evla, d_deg), IntQuot(r.evlo, d_deg), IntQuot(r.evdp, d_km)>>

\* the cell columns are added and src_points is sorted by them
_evt_group(c, d_deg, d_km) ==
    [c EXCEPT !.src_points =
        sort_values(@, [i \in 1..Len(@) |-> EvtGroup(@[i], d_deg, d_km)])]

\* weight = 1/sqrt(number of sources of the cell), stored as that number;
\* sources.weight is the weight of the first row of src_points with the
\* event_id, and .values[0] raises IndexError when there is none
_box_weighting_ev(c, d_deg, d_km) ==
    LET s == _evt_group(c, d_deg, d_km).src_points
        w == [i \in 1..Len(s) |->
                [s[i] EXCEPT !.weight =
                    Cardinality({j \in 1..Len(s) :
                        EvtGroup(s[j], d_deg, d_km) = EvtGroup(s[i], d_deg, d_km)})]]
        c1 == [c EXCEPT !.src_points = w]
        known == \A k \in 1..Len(c.sources) : c.sources[k].event_id \in SrcEventIds(c)
        first(e) == CHOOSE i \in 1..Len(w) :
                       w[i].event_id = e /\ \A j \in 1..(i - 1) : w[j].event_id # e
    IN  IF ~known THEN [c |-> c1, err |-> "IndexError"]
        ELSE [c |-> [c1 EXCEPT !.sources =
                        [k \in 1..Len(c.sources) |->
                            [c.sources[k] EXCEPT
                                !.weight = w[first(c.sources[k].event_id)].weight]]],
              err |-> NoErr]

-----------------------------------------------------------------------------
(* append(sr). *)

Tag(c) ==
    IF c.has_fname THEN c
    ELSE [c EXCEPT
            !.has_fname = TRUE,
            !.src_points = [i \in 1..Len(@) |-> [@[i] EXCEPT !.fname = c.fnames[1]]],
            !.rec_points = [i \in 1..Len(@) |-> [@[i] EXCEPT !.fname = c.fnames[1]]]]

\* x + n_src_offset, NaN staying NaN
Offset(x, n) == IF x = NaN THEN NaN ELSE x + n

\* sr after the call: its index reset, its tables tagged, its src_index and
\* src_index2 raised by the number of sources self had
AppendedArg(c, sr) ==
    LET n == Len(c.src_points)
        t == Tag(reset_index(sr))
    IN  [t EXCEPT
           !.rec_points = [i \in 1..Len(@) |-> [@[i] EXCEPT !.src_index = Offset(@, n)]],
           !.rec_points_cs = [i \in 1..Len(@) |-> [@[i] EXCEPT !.src_index = Offset(@, n)]],
           !.rec_points_cr = [i \in 1..Len(@) |->
                                [@[i] EXCEPT !.src_index = Offset(@, n),
                                             !.src_index2 = Offset(@, n)]]]

\* what append does once the checks have passed: concat(ignore_index=True)
\* labels src_points 0, 1, ... by position; fnames grows when update() returned
AppendTables(c, sr) ==
    LET a == Tag(reset_index(c))
        b == AppendedArg(c, sr)
        src == a.src_points \o b.src_points
        joined == [a EXCEPT
                     !.has_distaz = a.has_distaz \/ b.has_distaz,
                     !.src_points = [i \in 1..Len(src) |-> [src[i] EXCEPT !.idx = i - 1]],
                     !.rec_points = @ \o b.rec_points,
                     !.rec_points_cs = @ \o b.rec_points_cs,
                     !.rec_points_cr = @ \o b.rec_points_cr]
        r == update(joined)
    IN  IF r.err # NoErr THEN [c |-> r.c, sr |-> b, err |-> r.err]
        ELSE [c |-> [r.c EXCEPT !.fnames = @ \o sr.fnames], sr |-> b, err |-> NoErr]

\* an append that resets the index and tags the tables of self before it
\* compares src_only
append_check_late(c, sr) ==
    IF sr.type # "SrcRec" THEN [c |-> c, sr |-> sr, err |-> "TypeError"]
    ELSE IF c.src_only # sr.src_only
    THEN [c |-> Tag(reset_index(c)), sr |-> sr, err |-> "ValueError"]
    ELSE AppendTables(c, sr)

\* returns [c, sr, err]: the type checks come first
append(c, sr) ==
    IF sr.type # "SrcRec" THEN [c |-> c, sr |-> sr, err |-> "TypeError"]
    ELSE IF c.src_only # sr.src_only THEN [c |-> c, sr |-> sr, err |-> "ValueError"]
    ELSE AppendTables(c, sr)

-----------------------------------------------------------------------------
(* select_by_num_rec and select_one_event_in_each_subgrid. *)

\* update_num_rec(), the sources with num_rec >= num_rec kept (NaN >= k is
\* False), update()
select_by_num_rec(c, num_rec) ==
    LET r == update_num_rec(c)
    IN  IF r.err # NoErr THEN r
        ELSE update([r.c EXCEPT !.src_points =
                        SelectSeq(@, LAMBDA x : x.num_rec # NaN /\ x.num_rec >= num_rec)])

\* the first row of the rows of s sorted by num_rec, largest first (of rows
\* with the same num_rec, the one that comes first in s)
LargestNumRec(s) ==
    s[CHOOSE i \in 1..Len(s) :
        /\ \A j \in 1..Len(s) : s[j].num_rec <= s[i].num_rec
        /\ \A j \in 1..(i - 1) : s[j].num_rec < s[i].num_rec]

\* the cells of the rows of s, each once, in the order of s
RECURSIVE CellsOf(_, _, _)
CellsOf(s, d_deg, d_km) ==
    IF s = <<>> THEN <<>>
    ELSE LET g == EvtGroup(Head(s), d_deg, d_km)
         IN  <<g>> \o CellsOf(SelectSeq(Tail(s), LAMBDA r : EvtGroup(r, d_deg, d_km) # g),
                               d_deg, d_km)

\* _evt_group(), then groupby(cells).apply(row with the largest num_rec): the
\* result has the cells as its index and the src_index labels are gone (NaN
\* here), so that set_index("src_index") raises KeyError; update() is not
\* reached
select_one_event_in_each_subgrid(c, d_deg, d_km) ==
    LET s == _evt_group(c, d_deg, d_km).src_points
        cells == CellsOf(s, d_deg, d_km)
        kept == [n \in 1..Len(cells) |->
                   [LargestNumRec(SelectSeq(s, LAMBDA r : EvtGroup(r, d_deg, d_km) = cells[n]))
                       EXCEPT !.idx = NaN]]
    IN  [c |-> [c EXCEPT !.src_points = kept], err |-> "KeyError"]

-----------------------------------------------------------------------------
(* rotate, to_utm and update_position. *)

\* the NaN of a latitude or longitude that a left merge found no partner for
NaNPos == 0 - 1000

\* rtp_rotation(lat, lon, clat, clon, angle) on the integer grid of the model:
\* the centre goes to <<0, 0>> and the plane makes a quarter turn; reverse
\* undoes it.  The result is <<lat, lon>>
rtp_rotation(lat, lon, clat, clon) == <<lon - clon, 0 - (lat - clat)>>

rtp_rotation_reverse(lat, lon, clat, clon) == <<clat - lon, lat + clon>>

\* Proj(proj="utm")(lon, lat) on the integer grid of the model: metres east of
\* the false easting and north of the equator.  The result is <<lat, lon>>
latlon2utm(lat, lon) == <<110 * lat, 500 + 100 * lon>>

\* the rows of the projection t whose column key is k
Partners(t, key, k) == SelectSeq(t, LAMBDA r : r[key] = k)

\* left.merge(right, how='left') on one key, row by row: a left row is
\* repeated for every partner, Fill(row, partner) gives the merged row and
\* Miss(row) the row without partner
MergeRow(row, prt, Fill(_, _), Miss(_)) ==
    IF prt = <<>> THEN <<Miss(row)>> ELSE [n \in 1..Len(prt) |-> Fill(row, prt[n])]

\* src_points.merge(sources, on='event_id'): evla and evlo of the partner,
\* and the rows labelled 0, 1, ... anew
MergeSrc(c) ==
    LET fill(r, q) == [r EXCEPT !.evla = q.evla, !.evlo = q.evlo]
        miss(r) == [r EXCEPT !.evla = NaNPos, !.evlo = NaNPos]
        rows == Flatten([i \in 1..Len(c.src_points) |->
                    MergeRow(c.src_points[i],
                             Partners(c.sources, "event_id", c.src_points[i].event_id),
                             fill, miss)])
    IN  [c EXCEPT !.src_points = [i \in 1..Len(rows) |-> [rows[i] EXCEPT !.idx = i - 1]]]

\* rec_points.merge(receivers, on='staname')
MergeRec(c) ==
    LET fill(r, q) == [r EXCEPT !.stla = q.stla, !.stlo = q.stlo]
        miss(r) == [r EXCEPT !.stla = NaNPos, !.stlo = NaNPos]
    IN  [c EXCEPT !.rec_points = Flatten([i \in 1..Len(c.rec_points) |->
            MergeRow(c.rec_points[i],
                     Partners(c.receivers, "staname", c.rec_points[i].staname),
                     fill, miss)])]

\* rec_points_cs.merge(receivers, left_on='staname1'), then left_on='staname2'
MergeCs(c) ==
    LET fill1(r, q) == [r EXCEPT !.stla1 = q.stla, !.stlo1 = q.stlo]
        miss1(r) == [r EXCEPT !.stla1 = NaNPos, !.stlo1 = NaNPos]
        fill2(r, q) == [r EXCEPT !.stla2 = q.stla, !.stlo2 = q.stlo]
        miss2(r) == [r EXCEPT !.stla2 = NaNPos, !.stlo2 = NaNPos]
        t1 == Flatten([i \in 1..Len(c.rec_points_cs) |->
                 MergeRow(c.rec_points_cs[i],
                          Partners(c.receivers, "staname", c.rec_points_cs[i].staname1),
                          fill1, miss1)])
    IN  [c EXCEPT !.rec_points_cs = Flatten([i \in 1..Len(t1) |->
            MergeRow(t1[i], Partners(c.receivers, "staname", t1[i].staname2),
                     fill2, miss2)])]

\* rec_points_cr.merge(receivers, on='staname')
MergeCrRec(c) ==
    LET fill(r, q) == [r EXCEPT !.stla = q.stla, !.stlo = q.stlo]
        miss(r) == [r EXCEPT !.stla = NaNPos, !.stlo = NaNPos]
    IN  [c EXCEPT !.rec_points_cr = Flatten([i \in 1..Len(c.rec_points_cr) |->
            MergeRow(c.rec_points_cr[i],
                     Partners(c.receivers, "staname", c.rec_points_cr[i].staname),
                     fill, miss)])]

\* rec_points_cr.merge(sources, left_on='event_id2', right_on='event_id')
MergeCrSrc(c) ==
    LET fill(r, q) == [r EXCEPT !.evla2 = q.evla, !.evlo2 = q.evlo]
        miss(r) == [r EXCEPT !.evla2 = NaNPos, !.evlo2 = NaNPos]
    IN  [c EXCEPT !.rec_points_cr = Flatten([i \in 1..Len(c.rec_points_cr) |->
            MergeRow(c.rec_points_cr[i],
                     Partners(c.sources, "event_id", c.rec_points_cr[i].event_id2),
                     fill, miss)])]

\* an update_position that leaves the paired source of rec_points_cr alone
update_position_no_pair(c) == MergeCrRec(MergeCs(MergeRec(MergeSrc(c))))

update_position(c) == MergeCrSrc(MergeCrRec(MergeCs(MergeRec(MergeSrc(c)))))

\* the projections moved by Move(lat, lon), then update_position()
MoveAll(c, Move(_, _)) ==
    update_position(
        [c EXCEPT
           !.sources = [i \in 1..Len(c.sources) |->
               [c.sources[i] EXCEPT !.evla = Move(c.sources[i].evla, c.sources[i].evlo)[1],
                                    !.evlo = Move(c.sources[i].evla, c.sources[i].evlo)[2]]],
           !.receivers = [i \in 1..Len(c.receivers) |->
               [c.receivers[i] EXCEPT
                   !.stla = Move(c.receivers[i].stla, c.receivers[i].stlo)[1],
                   !.stlo = Move(c.receivers[i].stla, c.receivers[i].stlo)[2]]]])

\* rotate(clat, clon, 90, reverse)
rotate(c, clat, clon, reverse) ==
    LET fwd(lat, lon) == rtp_rotation(lat, lon, clat, clon)
        back(lat, lon) == rtp_rotation_reverse(lat, lon, clat, clon)
    IN  [c |-> IF reverse THEN MoveAll(c, back) ELSE MoveAll(c, fwd), err |-> NoErr]

to_utm(c) == [c |-> MoveAll(c, latlon2utm), err |-> NoErr]

-----------------------------------------------------------------------------
(* Double-difference generation. *)

Abs(x) == IF x < 0 THEN 0 - x ELSE x

\* the compass direction, in degrees, of a step of dla to the north and dlo to
\* the east; 0 for no step
Compass(dla, dlo) ==
    IF dla > 0 THEN (IF dlo > 0 THEN 45 ELSE IF dlo = 0 THEN 0 ELSE 315)
    ELSE IF dla = 0 THEN (IF dlo > 0 THEN 90 ELSE IF dlo = 0 THEN 0 ELSE 270)
    ELSE (IF dlo > 0 THEN 135 ELSE IF dlo = 0 THEN 180 ELSE 225)

\* DistAZ(evla, evlo, stla, stlo) on the integer grid of the model: delta is
\* the sum of the latitude and longitude differences, az the compass
\* direction from the source to the station, baz is 0 for a source that is
\* not south of the station and 180 for one that is
DistAZ(evla, evlo, stla, stlo) ==
    [delta |-> Abs(evla - stla) + Abs(evlo - stlo),
     az |-> Compass(stla - evla, stlo - evlo),
     baz |-> IF evla >= stla THEN 0 ELSE 180]

\* the row of src_points with label k (.loc[k])
SrcAt(c, k) ==
    c.src_points[CHOOSE i \in 1..Len(c.src_points) : c.src_points[i].idx = k]

\* dist_deg, az and baz of every absolute record from the source with its
\* src_index; KeyError when a group label is no label of src_points
calc_distaz(c) ==
    IF ~(GroupLabels(c.rec_points) \subseteq SrcIdx(c))
    THEN [c |-> [c EXCEPT !.has_distaz = TRUE], err |-> "KeyError"]
    ELSE [c |-> [c EXCEPT
                   !.has_distaz = TRUE,
                   !.rec_points = [i \in 1..Len(c.rec_points) |->
                       LET r == c.rec_points[i]
                       IN  IF r.src_index = NaN THEN r
                           ELSE LET da == DistAZ(SrcAt(c, r.src_index).evla,
                                                 SrcAt(c, r.src_index).evlo, r.stla, r.stlo)
                                IN  [r EXCEPT !.dist_deg = da.delta, !.az = da.az,
                                              !.baz = da.baz]]],
          err |-> NoErr]

\* calc_azi_gap(az): the largest difference of two neighbours among the sorted
\* azimuths followed by the smallest plus 360
calc_azi_gap(S) ==
    LET least == CHOOSE a \in S : \A b \in S : a <= b
        next(a) == IF \E b \in S : b > a
                   THEN CHOOSE b \in S : b > a /\ \A x \in S : x > a => b <= x
                   ELSE least + 360
    IN  CHOOSE g \in {next(a) - a : a \in S} : \A a \in S : next(a) - a <= g

\* max_gap at the label k of groupby('src_index')
MaxGap(c, k) ==
    calc_azi_gap({c.rec_points[i].az : i \in {j \in 1..Len(c.rec_points) :
                                                c.rec_points[j].src_index = k}})

\* src_points[max_gap < max_azi_gap] (strict) or [max_gap <= max_azi_gap]; a
\* boolean Series that lacks a label of src_points raises IndexingError
AziSelect(c, max_azi_gap, strict) ==
    LET r == IF c.has_distaz THEN [c |-> c, err |-> NoErr] ELSE calc_distaz(c)
        keep(x) == IF strict THEN MaxGap(r.c, x.idx) < max_azi_gap
                   ELSE MaxGap(r.c, x.idx) <= max_azi_gap
    IN  IF r.err # NoErr THEN r
        ELSE IF ~(SrcIdx(r.c) \subseteq GroupLabels(r.c.rec_points))
        THEN [c |-> r.c, err |-> "IndexingError"]
        ELSE update([r.c EXCEPT !.src_points = SelectSeq(@, keep)])

\* a select_by_azi_gap that keeps the sources whose gap equals max_azi_gap
select_by_azi_gap_le(c, max_azi_gap) == AziSelect(c, max_azi_gap, FALSE)

select_by_azi_gap(c, max_azi_gap) == AziSelect(c, max_azi_gap, TRUE)

\* dd_weight = 'multiply' on weights 1/sqrt(n): the product is 1/sqrt(n1 * n2)
_cal_dd_weight(w1, w2) == w1 * w2

\* the pairs <<i, j>>, i < j, of 1..n in the order of the two nested loops
IndexPairs(n) ==
    Flatten([i \in 1..n |-> [k \in 1..(n - i) |-> <<i, i + k>>]])

\* the test on a pair of absolute records; gaps = <<max_azi_gap, max_dist_gap>>
Close(a, b, gaps) ==
    /\ Abs(a.baz - b.baz) < gaps[1]
    /\ Abs(a.dist_deg - b.dist_deg) < gaps[2]
    /\ a.phase = b.phase

\* f"{phase},cs" and f"{phase},cr"
DDPhase(phase, kind) ==
    IF kind = "cs" THEN (IF phase = "P" THEN "P,cs" ELSE "S,cs")
    ELSE (IF phase = "P" THEN "P,cr" ELSE "S,cr")

\* the labels of a set of integers in ascending order
RECURSIVE Ascending(_)
Ascending(S) ==
    IF S = {} THEN <<>>
    ELSE LET m == CHOOSE x \in S : \A y \in S : x <= y
         IN  <<m>> \o Ascending(S \ {m})

\* the common-source row of the records a and b of the source with label k
CsRow(k, a, b) ==
    [src_index |-> k,
     rec_index1 |-> a.rec_index, staname1 |-> a.staname,
     stla1 |-> a.stla, stlo1 |-> a.stlo, stel1 |-> a.stel,
     rec_index2 |-> b.rec_index, staname2 |-> b.staname,
     stla2 |-> b.stla, stlo2 |-> b.stlo, stel2 |-> b.stel,
     phase |-> DDPhase(a.phase, "cs"), tt |-> a.tt - b.tt,
     weight |-> _cal_dd_weight(a.weight, b.weight)]

\* the absolute records of the source with label k
RecData(c, k) == SelectSeq(c.rec_points, LAMBDA r : r.src_index = k)

\* a generation that pairs records whatever their phases
_generate_cs_any_phase(c, gaps) ==
    LET labels == Ascending(GroupLabels(c.rec_points))
        rowsOf(k) ==
            LET prs == SelectSeq(IndexPairs(Len(RecData(c, k))),
                          LAMBDA p : Close([RecData(c, k)[p[1]] EXCEPT !.phase = "P"],
                                           [RecData(c, k)[p[2]] EXCEPT !.phase = "P"], gaps))
            IN  [n \in 1..Len(prs) |->
                   CsRow(k, RecData(c, k)[prs[n][1]], RecData(c, k)[prs[n][2]])]
    IN  [c EXCEPT !.rec_points_cs = Flatten([n \in 1..Len(labels) |-> rowsOf(labels[n])])]

\* rec_points_cs rebuilt: per source, in the order of the labels, one row for
\* every pair i < j of its absolute records that passes the test
_generate_cs(c, gaps) ==
    LET labels == Ascending(GroupLabels(c.rec_points))
        rowsOf(k) ==
            LET prs == SelectSeq(IndexPairs(Len(RecData(c, k))),
                          LAMBDA p : Close(RecData(c, k)[p[1]], RecData(c, k)[p[2]], gaps))
            IN  [n \in 1..Len(prs) |->
                   CsRow(k, RecData(c, k)[prs[n][1]], RecData(c, k)[prs[n][2]])]
    IN  [c EXCEPT !.rec_points_cs = Flatten([n \in 1..Len(labels) |-> rowsOf(labels[n])])]

\* rec_points_cr rebuilt: per row of the receivers projection, one row for
\* every pair i < j of the absolute records with its staname that passes the
\* test.  The paired source is read from src_points at the position
\* src_index of record j: IndexError when that is no position (or when the
\* column holds a NaN and is a float column)
_generate_cr(c, gaps) ==
    LET floatCol == \E i \in 1..Len(c.rec_points) : c.rec_points[i].src_index = NaN
        dataOf(n) == SelectSeq(c.rec_points, LAMBDA r : r.staname = c.receivers[n].staname)
        pairsOf(n) == SelectSeq(IndexPairs(Len(dataOf(n))),
                                LAMBDA p : Close(dataOf(n)[p[1]], dataOf(n)[p[2]], gaps))
        bad(n) == \E k \in 1..Len(pairsOf(n)) :
                      \/ floatCol
                      \/ dataOf(n)[pairsOf(n)[k][2]].src_index \notin 0..(Len(c.src_points) - 1)
        rowsOf(n) ==
            [k \in 1..Len(pairsOf(n)) |->
                LET a == dataOf(n)[pairsOf(n)[k][1]]
                    b == dataOf(n)[pairsOf(n)[k][2]]
                    rec == c.receivers[n]
                    src2 == c.src_points[b.src_index + 1]
                IN  [src_index |-> a.src_index, rec_index |-> a.rec_index,
                     staname |-> rec.staname, stla |-> rec.stla, stlo |-> rec.stlo,
                     stel |-> rec.stel,
                     src_index2 |-> b.src_index, event_id2 |-> src2.event_id,
                     evla2 |-> src2.evla, evlo2 |-> src2.evlo, evdp2 |-> src2.evdp,
                     phase |-> DDPhase(a.phase, "cr"), tt |-> a.tt - b.tt,
                     weight |-> _cal_dd_weight(src2.weight, a.weight)]]
    IN  IF \E n \in 1..Len(c.receivers) : bad(n)
        THEN [c |-> [c EXCEPT !.rec_points_cr = <<>>], err |-> "IndexError"]
        ELSE [c |-> [c EXCEPT !.rec_points_cr =
                        Flatten([n \in 1..Len(c.receivers) |-> rowsOf(n)])],
              err |-> NoErr]

\* generate_double_difference(type, max_azi_gap, max_dist_gap, 'multiply'):
\* calc_distaz() when the columns are missing, the tables of the type, update()
generate_double_difference(c, type, gaps) ==
    LET r1 == IF c.has_distaz THEN [c |-> c, err |-> NoErr] ELSE calc_distaz(c)
        c2 == IF type \in {"cs", "both"} THEN _generate_cs(r1.c, gaps) ELSE r1.c
        r3 == IF type \in {"cr", "both"} THEN _generate_cr(c2, gaps)
              ELSE [c |-> c2, err |-> NoErr]
    IN  IF r1.err # NoErr THEN r1
        ELSE IF r3.err # NoErr THEN r3
        ELSE update(r3.c)

-----------------------------------------------------------------------------
(* Receiver weighting. *)

\* t[...][key == k]["weight"].values[0]: the weight of the first row of t
\* whose column key is k
FirstWeight(t, key, k) ==
    t[CHOOSE i \in 1..Len(t) : t[i][key] = k /\ \A j \in 1..(i - 1) : t[j][key] # k].weight

\* the weight of the last row of t whose column key is k
LastWeight(t, key, k) ==
    t[CHOOSE i \in 1..Len(t) : t[i][key] = k /\ \A j \in (i + 1)..Len(t) : t[j][key] # k].weight

Has(t, key, k) == \E i \in 1..Len(t) : t[i][key] = k

\* the weights of rec_points_cs and rec_points_cr, by stations and paired
\* source of each row; .values[0] raises IndexError when no row has the key
DDWeighted(c) ==
    LET found ==
          /\ \A i \in 1..Len(c.rec_points_cs) :
                /\ Has(c.receivers, "staname", c.rec_points_cs[i].staname1)
                /\ Has(c.receivers, "staname", c.rec_points_cs[i].staname2)
          /\ \A i \in 1..Len(c.rec_points_cr) :
                /\ Has(c.receivers, "staname", c.rec_points_cr[i].staname)
                /\ Has(c.src_points, "event_id", c.rec_points_cr[i].event_id2)
    IN  IF ~found THEN [c |-> c, err |-> "IndexError"]
        ELSE [c |-> [c EXCEPT
                 !.rec_points_cs = [i \in 1..Len(c.rec_points_cs) |->
                     [c.rec_points_cs[i] EXCEPT !.weight =
                        _cal_dd_weight(
                          FirstWeight(c.receivers, "staname", c.rec_points_cs[i].staname1),
                          FirstWeight(c.receivers, "staname", c.rec_points_cs[i].staname2))]],
                 !.rec_points_cr = [i \in 1..Len(c.rec_points_cr) |->
                     [c.rec_points_cr[i] EXCEPT !.weight =
                        _cal_dd_weight(
                          FirstWeight(c.receivers, "staname", c.rec_points_cr[i].staname),
                          FirstWeight(c.src_points, "event_id",
                                      c.rec_points_cr[i].event_id2))]]],
              err |-> NoErr]

\* receivers.weight = 1/sqrt(number of receivers of the cell), stored as that
\* number; every record gets the weight of the first receivers row with its
\* staname
BoxWeightedRecs(c, d_deg) ==
    LET cell(q) == <<IntQuot(q.stla, d_deg), IntQuot(q.stlo, d_deg)>>
        rcv == [i \in 1..Len(c.receivers) |->
                  [c.receivers[i] EXCEPT !.weight =
                      Cardinality({j \in 1..Len(c.receivers) :
                          cell(c.receivers[j]) = cell(c.receivers[i])})]]
        c1 == [c EXCEPT !.receivers = rcv]
    IN  IF \E i \in 1..Len(c.rec_points) : ~Has(rcv, "staname", c.rec_points[i].staname)
        THEN [c |-> c1, err |-> "IndexError"]
        ELSE [c |-> [c1 EXCEPT !.rec_points = [i \in 1..Len(c.rec_points) |->
                       [c.rec_points[i] EXCEPT
                          !.weight = FirstWeight(rcv, "staname", c.rec_points[i].staname)]]],
              err |-> NoErr]

\* the weights of the receivers and of rec_points, then those of
\* rec_points_cs and rec_points_cr
_box_weighting_st(c, d_deg) ==
    LET r == BoxWeightedRecs(c, d_deg)
    IN  IF r.err # NoErr THEN r ELSE DDWeighted(r.c)

\* box_weighting(d_deg, d_km, obj, dd_weight='multiply'); another obj than
\* 'src', 'rec' and 'both' is logged and the call returns
box_weighting(c, d_deg, d_km, obj) ==
    IF obj = "src" THEN _box_weighting_ev(c, d_deg, d_km)
    ELSE IF obj = "rec" THEN _box_weighting_st(c, d_deg)
    ELSE IF obj = "both"
    THEN LET r == _box_weighting_ev(c, d_deg, d_km)
         IN  IF r.err # NoErr THEN r ELSE _box_weighting_st(r.c, d_deg)
    ELSE [c |-> c, err |-> NoErr]

\* _calc_weights(lat, lon, scale=0.5) of the rows of t: the weight of a row is
\* 1/(number of rows within the reference distance), stored as the square of
\* that number; the reference distance is half the mean of all distances, so
\* that row j is within it of row i when 2 * N * N * dist[i][j] is at most
\* the sum of all distances
_calc_weights(t, fla, flo) ==
    LET N == Len(t)
        dist(i, j) == Abs(t[i][fla] - t[j][fla]) + Abs(t[i][flo] - t[j][flo])
        RECURSIVE sum(_)
        sum(k) == IF k = 0 THEN 0
                  ELSE sum(k - 1) + dist(((k - 1) \div N) + 1, ((k - 1) % N) + 1)
        near(i) == Cardinality({j \in 1..N : 2 * N * N * dist(i, j) <= sum(N * N)})
    IN  [i \in 1..N |-> near(i) * near(i)]

\* geo_weighting(obj, dd_weight='multiply'): the loop over receivers leaves a
\* record the weight of the last receivers row with its staname; with another
\* obj than 'src', 'rec' and 'both' neither branch is taken
geo_weighting(c, obj) ==
    LET ws == _calc_weights(c.src_points, "evla", "evlo")
        src == [i \in 1..Len(c.src_points) |-> [c.src_points[i] EXCEPT !.weight = ws[i]]]
        c1 == IF obj \notin {"src", "both"} THEN c
              ELSE [c EXCEPT !.src_points = src,
                             !.sources = [k \in 1..Len(c.sources) |->
                                 [c.sources[k] EXCEPT !.weight =
                                     IF Has(src, "event_id", c.sources[k].event_id)
                                     THEN FirstWeight(src, "event_id", c.sources[k].event_id)
                                     ELSE NaN]]]
        known == \A k \in 1..Len(c.sources) : Has(src, "event_id", c.sources[k].event_id)
        wr == _calc_weights(c1.receivers, "stla", "stlo")
        rcv == [i \in 1..Len(c1.receivers) |-> [c1.receivers[i] EXCEPT !.weight = wr[i]]]
        c2 == [c1 EXCEPT !.receivers = rcv,
                         !.rec_points = [i \in 1..Len(c1.rec_points) |->
                             IF Has(rcv, "staname", c1.rec_points[i].staname)
                             THEN [c1.rec_points[i] EXCEPT !.weight =
                                      LastWeight(rcv, "staname", c1.rec_points[i].staname)]
                             ELSE c1.rec_points[i]]]
    IN  IF obj \in {"src", "both"} /\ ~known
        THEN [c |-> [c EXCEPT !.src_points = src], err |-> "IndexError"]
        ELSE IF obj \notin {"rec", "both"} THEN [c |-> c1, err |-> NoErr]
        ELSE DDWeighted(c2)

-----------------------------------------------------------------------------
(* Calls with a dd_weight that is neither 'average' nor 'multiply': the     *)
(* first call of _cal_dd_weight raises ValueError.                          *)

\* the weights of rec_points_cs and rec_points_cr of _box_weighting_st: the
\* first row looks its weights up (IndexError when there is none) and calls
\* _cal_dd_weight
DDWeightedBadRule(c) ==
    IF c.rec_points_cs # <<>>
    THEN [c |-> c,
          err |-> IF /\ Has(c.receivers, "staname", c.rec_points_cs[1].staname1)
                     /\ Has(c.receivers, "staname", c.rec_points_cs[1].staname2)
                  THEN "ValueError" ELSE "IndexError"]
    ELSE IF c.rec_points_cr # <<>>
    THEN [c |-> c,
          err |-> IF /\ Has(c.receivers, "staname", c.rec_points_cr[1].staname)
                     /\ Has(c.src_points, "event_id", c.rec_points_cr[1].event_id2)
                  THEN "ValueError" ELSE "IndexError"]
    ELSE [c |-> c, err |-> NoErr]

_box_weighting_st_bad_rule(c, d_deg) ==
    LET r == BoxWeightedRecs(c, d_deg)
    IN  IF r.err # NoErr THEN r ELSE DDWeightedBadRule(r.c)

box_weighting_bad_rule(c, d_deg, d_km, obj) ==
    IF obj = "src" THEN _box_weighting_ev(c, d_deg, d_km)
    ELSE IF obj = "rec" THEN _box_weighting_st_bad_rule(c, d_deg)
    ELSE IF obj = "both"
    THEN LET r == _box_weighting_ev(c, d_deg, d_km)
         IN  IF r.err # NoErr THEN r ELSE _box_weighting_st_bad_rule(r.c, d_deg)
    ELSE [c |-> c, err |-> NoErr]

\* _generate_cs: rec_points_cs is emptied, and the first pair that passes the
\* test calls _cal_dd_weight
_generate_cs_bad_rule(c, gaps) ==
    [c |-> [c EXCEPT !.rec_points_cs = <<>>],
     err |-> IF _generate_cs(c, gaps).rec_points_cs # <<>> THEN "ValueError" ELSE NoErr]

\* _generate_cr: rec_points_cr is emptied, and the first pair that passes the
\* test reads its paired source by position (IndexError) and then calls
\* _cal_dd_weight
_generate_cr_bad_rule(c, gaps) ==
    LET floatCol == \E i \in 1..Len(c.rec_points) : c.rec_points[i].src_index = NaN
        dataOf(n) == SelectSeq(c.rec_points, LAMBDA r : r.staname = c.receivers[n].staname)
        pairsOf(n) == SelectSeq(IndexPairs(Len(dataOf(n))),
                                LAMBDA p : Close(dataOf(n)[p[1]], dataOf(n)[p[2]], gaps))
        paired == Flatten([n \in 1..Len(c.receivers) |->
                     [k \in 1..Len(pairsOf(n)) |-> dataOf(n)[pairsOf(n)[k][2]].src_index]])
    IN  [c |-> [c EXCEPT !.rec_points_cr = <<>>],
         err |-> IF paired = <<>> THEN NoErr
                 ELSE IF floatCol \/ paired[1] \notin 0..(Len(c.src_points) - 1)
                 THEN "IndexError" ELSE "ValueError"]

\* a type other than 'cs', 'cr' and 'both' is logged; update() runs all the same
generate_double_difference_bad_rule(c, type, gaps) ==
    LET r1 == IF c.has_distaz THEN [c |-> c, err |-> NoErr] ELSE calc_distaz(c)
        r2 == IF type \in {"cs", "both"} THEN _generate_cs_bad_rule(r1.c, gaps)
              ELSE [c |-> r1.c, err |-> NoErr]
        r3 == IF type \in {"cr", "both"} THEN _generate_cr_bad_rule(r2.c, gaps)
              ELSE [c |-> r2.c, err |-> NoErr]
    IN  IF r1.err # NoErr THEN r1
        ELSE IF r2.err # NoErr THEN r2
        ELSE IF r3.err # NoErr THEN r3
        ELSE update(r3.c)

-----------------------------------------------------------------------------
(* The lines of a file, read() line by line, and write().  A line is its    *)
(* kind, the values of its fields as a row of its table, and which of the   *)
(* optional fields (the weight at the end, the distance before the travel   *)
(* time of an absolute record) it has.  date_ok and num_ok tell whether the *)
(* date fields and the numeric event fields of a source line are numbers.   *)

\* the weight and the distance of a line that carries them
LineWeight == 2

LineDist == 30

Line(kind, row, has_weight, has_dist, date_ok, num_ok) ==
    [kind |-> kind, row |-> row, has_weight |-> has_weight, has_dist |-> has_dist,
     date_ok |-> date_ok, num_ok |-> num_ok]

\* the number of fields of a line
NFields(l) ==
    (IF l.kind = "abs" THEN 8 ELSE 13) + (IF l.has_dist THEN 1 ELSE 0)
    + (IF l.has_weight THEN 1 ELSE 0)

\* the lines of the file f in their order: every source line is followed by
\* its absolute, common-source and common-receiver lines.  d tells which
\* lines carry a weight (w1: the first source line, w2: the other source
\* lines, wa1: the first absolute line of a source, wa2: its other absolute
\* lines, wdd: the cs and cr lines), whether the absolute lines carry the
\* distance, and what is wrong with the last source line
TextLines(f, d) ==
    LET n == Len(f.lines)
        srcLine(i) ==
            Line("src", [FileSrcRows(f)[i] EXCEPT !.weight = LineWeight],
                 IF i = 1 THEN d.w1 ELSE d.w2, FALSE,
                 ~(i = n /\ d.bad = "date"), ~(i = n /\ d.bad = "num"))
        absLine(r) ==
            Line("abs", [r EXCEPT !.weight = LineWeight, !.dist_deg = LineDist],
                 IF r.rec_index = 0 THEN d.wa1 ELSE d.wa2, d.dist, TRUE, TRUE)
        ddLine(kind, r) ==
            Line(kind, [r EXCEPT !.weight = LineWeight], d.wdd, FALSE, TRUE, TRUE)
        of(t, i) == SelectSeq(t, LAMBDA r : r.src_index = i - 1)
        absOf(i) == [k \in 1..Len(of(FileRecRows(f), i)) |-> absLine(of(FileRecRows(f), i)[k])]
        csOf(i) == [k \in 1..Len(of(FileCsRows(f), i)) |-> ddLine("cs", of(FileCsRows(f), i)[k])]
        crOf(i) == [k \in 1..Len(of(FileCrRows(f), i)) |-> ddLine("cr", of(FileCrRows(f), i)[k])]
    IN  Flatten([i \in 1..n |-> <<srcLine(i)>> \o absOf(i) \o csOf(i) \o crOf(i)])

OfKind(t, kind) == SelectSeq(t, LAMBDA l : l.kind = kind)

\* the row of rec_points that read() makes of an absolute line: the columns
\* are named by position, so that with dist_in_data a line without distance
\* gives its travel time as dist_deg and its weight as tt, and without
\* dist_in_data a line with distance gives the distance as tt and the travel
\* time as weight
AbsRow(l, dist_in_data) ==
    IF dist_in_data = l.has_dist
    THEN [l.row EXCEPT !.dist_deg = IF l.has_dist THEN @ ELSE NaN,
                       !.weight = IF l.has_weight THEN @ ELSE NaN]
    ELSE IF l.has_dist
    THEN [l.row EXCEPT !.tt = l.row.dist_deg, !.weight = l.row.tt, !.dist_deg = NaN]
    ELSE [l.row EXCEPT !.dist_deg = l.row.tt, !.tt = l.row.weight, !.weight = NaN]

\* read(fname, dist_in_data) of the lines t.  read_csv takes the number of
\* columns from the first line and raises ParserError at a longer line.
\* ret is what the caller gets: a SrcRec, a DataFrame or, after an
\* exception, nothing; named tells whether its columns have their names
read_file(t, dist_in_data) ==
    LET ncols == NFields(t[1])
        w(l) == IF l.has_weight THEN l.row.weight ELSE NaN
        src == OfKind(t, "src")
        src_points == [i \in 1..Len(src) |->
                         [src[i].row EXCEPT !.weight = IF ncols = 13 THEN 1 ELSE w(src[i])]]
        last_col == IF dist_in_data THEN 8 ELSE 7
        abs == SelectSeq(OfKind(t, "abs"), LAMBDA l : NFields(l) >= last_col + 1)
        raw == [i \in 1..Len(abs) |-> AbsRow(abs[i], dist_in_data)]
        rec_points == IF \A i \in 1..Len(raw) : raw[i].weight = NaN
                      THEN [i \in 1..Len(raw) |-> [raw[i] EXCEPT !.weight = 1]]
                      ELSE raw
        dd(kind) == [i \in 1..Len(OfKind(t, kind)) |->
                       [OfKind(t, kind)[i].row EXCEPT
                           !.weight = IF ncols = 13 THEN 1 ELSE w(OfKind(t, kind)[i])]]
        sr == [NoCatalog EXCEPT !.type = "SrcRec", !.fnames = <<"fa">>]
    IN  IF \E i \in 1..Len(t) : NFields(t[i]) > ncols
        THEN [ret |-> "none", named |-> FALSE, c |-> NoCatalog, err |-> "ParserError"]
        ELSE IF \E i \in 1..Len(src) : ~src[i].date_ok
        THEN [ret |-> "SrcRec", named |-> FALSE,
              c |-> [sr EXCEPT !.src_points = src_points], err |-> NoErr]
        ELSE IF \E i \in 1..Len(src) : ~src[i].num_ok
        THEN [ret |-> "DataFrame", named |-> FALSE,
              c |-> [sr EXCEPT !.type = "DataFrame", !.src_points = src_points],
              err |-> NoErr]
        ELSE [ret |-> "SrcRec", named |-> TRUE,
              c |-> update_unique_src_rec(
                       [sr EXCEPT !.src_points = src_points, !.rec_points = rec_points,
                                  !.rec_points_cs = dd("cs"), !.rec_points_cr = dd("cr")]),
              err |-> NoErr]

\* a column that holds a NaN is a float column, and '{:d}' raises ValueError
\* for a float
FloatColumn(t, f) == \E i \in 1..Len(t) : t[i][f] = NaN

\* write(fname): per row of src_points the source line, then the lines of
\* the rows of rec_points, rec_points_cs and rec_points_cr whose src_index is
\* the label of the row.  Every line ends with its weight; no line holds a
\* distance
write(c) ==
    LET of(t, k) == SelectSeq(t, LAMBDA r : r.src_index = k)
        srcOut(x) == Line("src", [x EXCEPT !.fname = ""], TRUE, FALSE, TRUE, TRUE)
        absOut(r) == Line("abs", [r EXCEPT !.fname = "", !.dist_deg = NaN, !.az = NaN,
                                           !.baz = NaN], TRUE, FALSE, TRUE, TRUE)
        ddOut(kind, r) == Line(kind, r, TRUE, FALSE, TRUE, TRUE)
        recs(k) ==
            IF c.src_only THEN <<>>
            ELSE [n \in 1..Len(of(c.rec_points, k)) |-> absOut(of(c.rec_points, k)[n])]
                 \o [n \in 1..Len(of(c.rec_points_cs, k)) |->
                        ddOut("cs", of(c.rec_points_cs, k)[n])]
                 \o [n \in 1..Len(of(c.rec_points_cr, k)) |->
                        ddOut("cr", of(c.rec_points_cr, k)[n])]
        lines == Flatten([i \in 1..Len(c.src_points) |->
                    <<srcOut(c.src_points[i])>> \o recs(c.src_points[i].idx)])
        float ==
            \/ c.src_points # <<>> /\ FloatColumn(c.src_points, "idx")
            \/ \E i \in 1..Len(lines) :
                  \/ lines[i].kind = "abs" /\ FloatColumn(c.rec_points, "rec_index")
                  \/ lines[i].kind = "cs" /\ (\/ FloatColumn(c.rec_points_cs, "rec_index1")
                                              \/ FloatColumn(c.rec_points_cs, "rec_index2"))
                  \/ lines[i].kind = "cr" /\ (\/ FloatColumn(c.rec_points_cr, "rec_index")
                                              \/ FloatColumn(c.rec_points_cr, "src_index2"))
    IN  IF float THEN [lines |-> <<>>, err |-> "ValueError"]
        ELSE [lines |-> lines, err |-> NoErr]

\* the arguments the operations are called with
Regions == {<<-1, 1, -1, 1>>}

DepthRanges == {<<0, 10>>}

RecLists == {{"A"}, {"B"}, {"A", "B"}}

\* <<d_deg, d_km>>
GridSteps == {<<4, 10>>}

\* the most files a catalog is assembled from
MaxFiles == 2

OtherLine(loc, stas, e) == [loc |-> loc, stas |-> stas, event_id |-> e]

\* a second file: one source, the event e1 that the first file has too
OtherFileDup ==
    [lines |-> <<OtherLine(<<0, 0, 5>>, <<"A", "B">>, "e1")>>,
     cs |-> TRUE, cr |-> FALSE, fname |-> "fb"]

\* a second file: the first of its two sources is recorded outside the region only
OtherFileTwo ==
    [lines |-> <<OtherLine(<<0, 0, 5>>, <<"B">>, "e8"),
                 OtherLine(<<0, 0, 5>>, <<"A", "B">>, "e9")>>,
     cs |-> FALSE, cr |-> TRUE, fname |-> "fb"]

\* read(fname, src_only=True): the source lines alone
OtherSrcOnly ==
    [NoCatalog EXCEPT !.type = "SrcRec", !.src_only = TRUE, !.fnames = <<"fb">>,
                      !.src_points = FileSrcRows(OtherFileDup)]

\* an argument that is no SrcRec
OtherNotSrcRec == [NoCatalog EXCEPT !.type = "DataFrame"]

\* the catalogs append is called with: freshly read, or read and selected
Others ==
    {read(OtherFileDup), read(OtherFileTwo),
     select_by_box_region(read(OtherFileTwo), <<-1, 1, -1, 1>>).c,
     OtherSrcOnly, OtherNotSrcRec}

-----------------------------------------------------------------------------
\* a catalog that was just read
InitWith(max) ==
    /\ cat \in {read(f) : f \in Files(max)}
    /\ other = NoCatalog
    /\ err = NoErr
    /\ last = [op |-> "read", arg |-> <<>>]
    /\ pre = [cat |-> NoCatalog, other |-> NoCatalog]

Init == InitWith(MaxSrc)

InitAppend == InitWith(MaxAppendSrc)

\* an operation on cat alone ran and left r = [c, err]; an exception that
\* was raised ended the script
Ran(op, arg, r) ==
    /\ err = NoErr
    /\ cat' = r.c
    /\ err' = r.err
    /\ last' = [op |-> op, arg |-> arg]
    /\ pre' = [cat |-> cat, other |-> other]
    /\ UNCHANGED other

SelectByBoxRegion ==
    \E region \in Regions :
        Ran("select_by_box_region", region, select_by_box_region(cat, region))

SelectByDepth ==
    \E d \in DepthRanges : Ran("select_by_depth", d, select_by_depth(cat, d))

RemoveSpecifiedRecs ==
    \E l \in RecLists : Ran("remove_specified_recs", l, remove_specified_recs(cat, l))

Update == Ran("update", <<>>, update(cat))

\* box_weighting(d_deg, d_km, obj="src"), on a catalog that lists a source
BoxWeightingSrc ==
    /\ cat.sources # <<>>
    /\ \E g \in GridSteps :
          Ran("box_weighting", g, _box_weighting_ev(cat, g[1], g[2]))

AppendCatalog ==
    /\ err = NoErr
    /\ Len(cat.fnames) < MaxFiles
    /\ \E sr \in Others :
          LET r == append(cat, sr)
          IN  /\ cat' = r.c
              /\ other' = r.sr
              /\ err' = r.err
              /\ last' = [op |-> "append", arg |-> <<>>]
              /\ pre' = [cat |-> cat, other |-> sr]

Next ==
    \/ SelectByBoxRegion
    \/ SelectByDepth
    \/ RemoveSpecifiedRecs
    \/ Update
    \/ BoxWeightingSrc

Spec == Init /\ [][Next]_vars

\* one catalog is selected from or weighted, and a second one is appended
NextAppend ==
    \/ SelectByBoxRegion
    \/ BoxWeightingSrc
    \/ AppendCatalog

SpecAppend == InitAppend /\ [][NextAppend]_vars

\* the most source lines of a file that double differences are generated from
MaxDDSrc == 2

\* <<max_azi_gap, max_dist_gap>>
DDGaps == {<<15, 3>>, <<15, 20>>}

DDTypes == {"cs", "cr", "both"}

\* read(fname) of a file without common-source and common-receiver lines; with
\* moved, the last source line gives station A another elevation than the
\* other lines; with shear, the first source line has phase S at station B;
\* the travel times at B are such that no two pairs of records have the same
\* difference
DDRead(f, moved, shear) ==
    LET c == read(f)
    IN  update_unique_src_rec(
          [c EXCEPT !.rec_points = [i \in 1..Len(c.rec_points) |->
              LET r == c.rec_points[i]
              IN  [r EXCEPT
                     !.stel = IF moved /\ r.staname = "A" /\ r.src_index = Len(f.lines) - 1
                              THEN 1 ELSE r.stel,
                     !.phase = IF shear /\ r.staname = "B" /\ r.src_index = 0
                               THEN "S" ELSE r.phase,
                     !.tt = IF r.staname = "B" THEN r.tt + r.src_index ELSE r.tt]]])

InitDD ==
    /\ cat \in {DDRead(f, moved, shear) :
                   f \in {g \in Files(MaxDDSrc) : ~g.cs /\ ~g.cr},
                   moved \in BOOLEAN, shear \in BOOLEAN}
    /\ other = NoCatalog
    /\ err = NoErr
    /\ last = [op |-> "read", arg |-> <<>>]
    /\ pre = [cat |-> NoCatalog, other |-> NoCatalog]

GenerateDoubleDifference ==
    \E type \in DDTypes, gaps \in DDGaps :
        Ran("generate_double_difference", <<type, gaps>>,
            generate_double_difference(cat, type, gaps))

\* double differences are generated from a catalog that was read, selected
\* from or weighted
NextDD ==
    \/ GenerateDoubleDifference
    \/ SelectByBoxRegion
    \/ BoxWeightingSrc

SpecDD == InitDD /\ [][NextDD]_vars

\* the most source lines of a file that sources are thinned out of
MaxSelSrc == 2

\* num_rec argument of select_by_num_rec
NumRecs == {2, 3}

InitSel == InitWith(MaxSelSrc)

SelectByNumRec ==
    \E k \in NumRecs : Ran("select_by_num_rec", k, select_by_num_rec(cat, k))

SelectOneEventInEachSubgrid ==
    \E g \in GridSteps :
        Ran("select_one_event_in_each_subgrid", g,
            select_one_event_in_each_subgrid(cat, g[1], g[2]))

\* sources are selected by their number of records or by their cell
NextSel ==
    \/ SelectByNumRec
    \/ SelectOneEventInEachSubgrid
    \/ SelectByBoxRegion

SpecSel == InitSel /\ [][NextSel]_vars

\* the most source lines of a file whose catalog is rotated or projected
MaxRotSrc == 2

\* the largest latitude or longitude, in absolute value, of a catalog that is
\* still rotated or projected
MaxCoord == 10

\* <<clat, clon>> of rotate
Centres == {<<0, 0>>, <<5, 7>>}

Small(x) == Abs(x) <= MaxCoord

\* the catalog is in geographic coordinates
Geographic(c) ==
    /\ \A i \in 1..Len(c.sources) : Small(c.sources[i].evla) /\ Small(c.sources[i].evlo)
    /\ \A i \in 1..Len(c.receivers) :
           Small(c.receivers[i].stla) /\ Small(c.receivers[i].stlo)

\* the most rows of a table of a catalog that is still rotated or projected:
\* a merge repeats a row for every entry of the projection with its key
MaxRows == 6

FewRows(c) ==
    \A t \in {c.src_points, c.rec_points, c.rec_points_cs, c.rec_points_cr} :
        Len(t) <= MaxRows

InitRot == InitWith(MaxRotSrc)

Rotate ==
    /\ Geographic(cat)
    /\ FewRows(cat)
    /\ \E ctr \in Centres, reverse \in BOOLEAN :
          Ran("rotate", <<ctr, reverse>>, rotate(cat, ctr[1], ctr[2], reverse))

ToUtm ==
    /\ Geographic(cat)
    /\ FewRows(cat)
    /\ Ran("to_utm", <<>>, to_utm(cat))

\* a catalog is rotated or projected after it was read or selected from
NextRot ==
    \/ Rotate
    \/ ToUtm
    \/ SelectByBoxRegion

SpecRot == InitRot /\ [][NextRot]_vars

\* the most source lines of a file whose receivers are weighted
MaxWeightSrc == 2

\* obj of a weighting that reaches the receivers
RecObjs == {"rec", "both"}

\* read(fname); with moved, the last source line lists station A at another
\* latitude and longitude than the other lines
WeightRead(f, moved) ==
    LET c == read(f)
    IN  update_unique_src_rec(
          [c EXCEPT !.rec_points = [i \in 1..Len(c.rec_points) |->
              LET r == c.rec_points[i]
              IN  IF moved /\ r.staname = "A" /\ r.src_index = Len(f.lines) - 1
                  THEN [r EXCEPT !.stla = 6, !.stlo = 7] ELSE r]])

InitWeight ==
    /\ cat \in {WeightRead(f, moved) : f \in Files(MaxWeightSrc), moved \in BOOLEAN}
    /\ other = NoCatalog
    /\ err = NoErr
    /\ last = [op |-> "read", arg |-> <<>>]
    /\ pre = [cat |-> NoCatalog, other |-> NoCatalog]

BoxWeightingRec ==
    \E g \in GridSteps, obj \in RecObjs :
        Ran("box_weighting", <<g, obj>>, box_weighting(cat, g[1], g[2], obj))

GeoWeightingRec ==
    \E obj \in RecObjs : Ran("geo_weighting", obj, geo_weighting(cat, obj))

\* receivers are weighted after the catalog was read or selected from
NextWeight ==
    \/ BoxWeightingRec
    \/ GeoWeightingRec
    \/ SelectByBoxRegion

SpecWeight == InitWeight /\ [][NextWeight]_vars

\* the largest latitude, in absolute value, of a source of a gridded catalog
MaxLat == 4

\* read(fname) of a file of two sources at the latitudes la1 and la2, north or
\* south of the equator, both recorded at station B
GridRead(la1, la2) ==
    read([lines |-> <<OtherLine(<<la1, 0, 5>>, <<"B">>, "e1"),
                      OtherLine(<<la2, 0, 5>>, <<"B">>, "e2")>>,
          cs |-> FALSE, cr |-> FALSE, fname |-> "fa"])

InitGrid ==
    /\ cat \in {GridRead(la1, la2) : la1, la2 \in (0 - MaxLat)..MaxLat}
    /\ other = NoCatalog
    /\ err = NoErr
    /\ last = [op |-> "read", arg |-> <<>>]
    /\ pre = [cat |-> NoCatalog, other |-> NoCatalog]

\* the sources of a catalog that was read or selected from are weighted by cell
NextGrid ==
    \/ BoxWeightingSrc
    \/ SelectByBoxRegion

SpecGrid == InitGrid /\ [][NextGrid]_vars

\* the most source lines of a file whose sources are selected by azimuthal gap
MaxAziSrc == 2

\* max_azi_gap of select_by_azi_gap
AziGaps == {315, 360}

InitAzi == InitWith(MaxAziSrc)

SelectByAziGap ==
    \E g \in AziGaps : Ran("select_by_azi_gap", g, select_by_azi_gap(cat, g))

\* sources are selected by azimuthal gap after the catalog was read or
\* selected from
NextAzi ==
    \/ SelectByAziGap
    \/ SelectByBoxRegion
    \/ RemoveSpecifiedRecs

SpecAzi == InitAzi /\ [][NextAzi]_vars

\* type of generate_double_difference: the supported values and one that is
\* not
ArgTypes == {"cs", "cr", "both", "sc"}

\* an obj that the weightings do not support
BadObjs == {"all"}

InitArgs == InitDD

\* generate_double_difference with a supported dd_weight and any type
GenerateAnyType ==
    \E type \in ArgTypes, gaps \in DDGaps :
        Ran("generate_double_difference", <<type, gaps, "multiply">>,
            generate_double_difference(cat, type, gaps))

\* generate_double_difference with dd_weight='sum'
GenerateBadRule ==
    \E type \in DDTypes, gaps \in DDGaps :
        Ran("generate_double_difference", <<type, gaps, "sum">>,
            generate_double_difference_bad_rule(cat, type, gaps))

BoxWeightingBadObj ==
    \E g \in GridSteps, obj \in BadObjs :
        Ran("box_weighting", <<g, obj, "multiply">>, box_weighting(cat, g[1], g[2], obj))

\* box_weighting with dd_weight='sum'
BoxWeightingBadRule ==
    \E g \in GridSteps, obj \in RecObjs :
        Ran("box_weighting", <<g, obj, "sum">>, box_weighting_bad_rule(cat, g[1], g[2], obj))

GeoWeightingBadObj ==
    \E obj \in BadObjs : Ran("geo_weighting", <<obj, "multiply">>, geo_weighting(cat, obj))

\* calls with unsupported arguments, on a catalog that was read and that
\* double differences were generated from
NextArgs ==
    \/ GenerateAnyType
    \/ GenerateBadRule
    \/ BoxWeightingBadObj
    \/ BoxWeightingBadRule
    \/ GeoWeightingBadObj

SpecArgs == InitArgs /\ [][NextArgs]_vars

\* the most source lines of a file that is read line by line
MaxTextSrc == 2

\* the files that are read line by line: every source at the same place and
\* recorded at both stations
TextBase ==
    {f \in Files(MaxTextSrc) :
        \A i \in 1..Len(f.lines) :
            f.lines[i].loc = <<0, 0, 5>> /\ f.lines[i].stas = <<"A", "B">>}

\* which lines carry the optional fields, and what is wrong with the last
\* source line
Decorations ==
    [w1 : BOOLEAN, w2 : BOOLEAN, wa1 : BOOLEAN, wa2 : BOOLEAN, wdd : BOOLEAN,
     dist : BOOLEAN, bad : {"no", "date", "num"}]

InitFile ==
    /\ cat = NoCatalog
    /\ other = NoCatalog
    /\ err = NoErr
    /\ last \in {[op |-> "file",
                   arg |-> [lines |-> TextLines(f, d), dist_in_data |-> b,
                            ret |-> "none", named |-> FALSE, written |-> <<>>]] :
                     f \in TextBase, d \in Decorations, b \in BOOLEAN}
    /\ pre = [cat |-> NoCatalog, other |-> NoCatalog]

\* read(fname, dist_in_data) of the file
ReadFile ==
    /\ last.op = "file"
    /\ LET r == read_file(last.arg.lines, last.arg.dist_in_data)
       IN  /\ cat' = r.c
           /\ err' = r.err
           /\ last' = [op |-> "read_file",
                       arg |-> [last.arg EXCEPT !.ret = r.ret, !.named = r.named]]
    /\ pre' = [cat |-> cat, other |-> other]
    /\ UNCHANGED other

\* write(fname) of the catalog that read() returned
WriteFile ==
    /\ last.op = "read_file"
    /\ err = NoErr
    /\ last.arg.ret = "SrcRec"
    /\ last.arg.named
    /\ LET w == write(cat)
       IN  /\ err' = w.err
           /\ last' = [op |-> "write", arg |-> [last.arg EXCEPT !.written = w.lines]]
    /\ pre' = [cat |-> cat, other |-> other]
    /\ UNCHANGED <<cat, other>>

NextFile ==
    \/ ReadFile
    \/ WriteFile

SpecFile == InitFile /\ [][NextFile]_vars

-----------------------------------------------------------------------------
(* add_noise.  Times are in units of a fifth of range_in_sec; a range       *)
(* sqrt(k) * range_in_sec is stored by its square k * RangeInSec^2.          *)

\* range_in_sec
RangeInSec == 5

\* mean_in_sec
Means == {0, 1}

Shapes == {"uniform", "gaussian"}

\* the square of range_in_sec when the loop reaches each table: an empty
\* table is skipped, and range_in_sec is doubled in square at a populated
\* rec_points_cs and again at a populated rec_points_cr
NoiseRange2(c) ==
    LET abs == RangeInSec * RangeInSec
        cs == IF c.rec_points_cs = <<>> THEN abs ELSE 2 * abs
        cr == IF c.rec_points_cr = <<>> THEN cs ELSE 2 * cs
    IN  [abs |-> abs, cs |-> cs, cr |-> cr]

\* the largest whole number whose square is at most n
Whole(n) == CHOOSE k \in 0..n : k * k <= n /\ (k + 1) * (k + 1) > n

\* draws of np.random for a table of n rows and a range of square r2: every
\* row at the upper end, or one row at the lower end and the others at the mean
Draws(n, r2, mean) ==
    {[i \in 1..n |-> mean + Whole(r2)]}
    \cup {[i \in 1..n |-> IF i = k THEN mean - Whole(r2) ELSE mean] : k \in 1..n}

Noisy(t, noise) == [i \in 1..Len(t) |-> [t[i] EXCEPT !.tt = t[i].tt + noise[i]]]

\* add_noise(range_in_sec, mean_in_sec, shape) with the draws na, ns, nr
add_noise(c, na, ns, nr) ==
    [c |-> [c EXCEPT !.rec_points = Noisy(c.rec_points, na),
                     !.rec_points_cs = Noisy(c.rec_points_cs, ns),
                     !.rec_points_cr = Noisy(c.rec_points_cr, nr)],
     err |-> NoErr]

\* the most source lines of a file that noise is added to
MaxNoiseSrc == 2

\* files whose source lines all list stations A and B
NoiseFiles ==
    {f \in Files(MaxNoiseSrc) :
        \A i \in 1..Len(f.lines) :
            f.lines[i].loc = <<0, 0, 5>> /\ f.lines[i].stas = <<"A", "B">>}

InitNoise ==
    /\ cat \in {read(f) : f \in NoiseFiles}
    /\ other = NoCatalog
    /\ err = NoErr
    /\ last = [op |-> "read", arg |-> <<>>]
    /\ pre = [cat |-> NoCatalog, other |-> NoCatalog]

\* the catalog is as read() returned it
AsRead(c) == c \in {read(f) : f \in NoiseFiles}

\* noise is added once, to a catalog that was read and possibly selected from
AddNoise ==
    /\ last.op # "add_noise"
    /\ AsRead(cat) \/ AsRead(pre.cat)
    /\ \E mean \in Means, shape \in Shapes :
         LET r == NoiseRange2(cat)
         IN  \E na \in Draws(Len(cat.rec_points), r.abs, mean),
                ns \in Draws(Len(cat.rec_points_cs), r.cs, mean),
                nr \in Draws(Len(cat.rec_points_cr), r.cr, mean) :
                 Ran("add_noise", <<mean, shape>>, add_noise(cat, na, ns, nr))

NextNoise ==
    \/ AddNoise
    \/ Update

SpecNoise == InitNoise /\ [][NextNoise]_vars

-----------------------------------------------------------------------------
(* erase_duplicate_events.  Origin times and thre_time_in_min are in one     *)
(* unit of time.  thre is <<thre_deg, thre_dep, thre_time_in_min>>.          *)

\* the four tests of the lambdas on a row a and its neighbour b
NearBy(a, b, thre) ==
    /\ Abs(a.evlo - b.evlo) < thre[1]
    /\ Abs(a.evla - b.evla) < thre[1]
    /\ Abs(a.evdp - b.evdp) < thre[2]
    /\ Abs(a.origin_time - b.origin_time) < thre[3]

\* column duplicated+1: the row before is close; diff() of the first row is
\* NaN and compares false
DuplicatedPrev(t, thre) == [i \in 1..Len(t) |-> i > 1 /\ NearBy(t[i], t[i - 1], thre)]

\* column duplicated-1: the row after is close
DuplicatedNext(t, thre) ==
    [i \in 1..Len(t) |-> i < Len(t) /\ NearBy(t[i], t[i + 1], thre)]

\* num_rec.diff() < 0 and <= 0 of a row a against its neighbour b: false
\* when either num_rec is NaN
FewerRecs(a, b) == a.num_rec # NaN /\ b.num_rec # NaN /\ a.num_rec < b.num_rec

NoMoreRecs(a, b) == a.num_rec # NaN /\ b.num_rec # NaN /\ a.num_rec <= b.num_rec

\* a pass of the while-loop that keeps the row before a close row of as many
\* records
EraseStepStrict(t, thre) ==
    LET dp == DuplicatedPrev(t, thre)
        dn == DuplicatedNext(t, thre)
        keep == [i \in 1..Len(t) |->
                    /\ ~(dp[i] /\ FewerRecs(t[i], t[i - 1]))
                    /\ ~(dn[i] /\ FewerRecs(t[i], t[i + 1]))]
    IN  [t |-> Mask(t, keep),
         num_duplicated |-> Cardinality({i \in 1..Len(t) : keep[i] /\ (dp[i] \/ dn[i])})]

\* one pass of the while-loop: both masks use the columns computed at the
\* start of the pass; num_duplicated counts the rows left whose flag is set
EraseStep(t, thre) ==
    LET dp == DuplicatedPrev(t, thre)
        dn == DuplicatedNext(t, thre)
        keep == [i \in 1..Len(t) |->
                    /\ ~(dp[i] /\ FewerRecs(t[i], t[i - 1]))
                    /\ ~(dn[i] /\ NoMoreRecs(t[i], t[i + 1]))]
    IN  [t |-> Mask(t, keep),
         num_duplicated |-> Cardinality({i \in 1..Len(t) : keep[i] /\ (dp[i] \/ dn[i])})]

\* the while-loop: a pass that leaves num_duplicated > 0 and drops no row is
\* repeated for ever
RECURSIVE EraseLoop(_, _)
EraseLoop(t, thre) ==
    LET s == EraseStep(t, thre)
    IN  IF s.num_duplicated = 0 THEN [t |-> s.t, returns |-> TRUE]
        ELSE IF s.t = t THEN [t |-> t, returns |-> FALSE]
        ELSE EraseLoop(s.t, thre)

\* src_points.sort_values(by=["origin_time", "evlo", "evla"])
SortByTime(t) ==
    sort_values(t, [i \in 1..Len(t) |-> <<t[i].origin_time, t[i].evlo, t[i].evla>>])

\* erase_duplicate_events(thre_deg, thre_dep, thre_time_in_min); on a table
\* without rows apply(axis=1) gives a DataFrame, which cannot be assigned to
\* the column duplicated+1
erase_duplicate_events(c, thre) ==
    LET l == EraseLoop(SortByTime(c.src_points), thre)
    IN  IF c.src_points = <<>> THEN [c |-> c, err |-> "ValueError"]
        ELSE IF ~l.returns THEN [c |-> [c EXCEPT !.src_points = l.t], err |-> "NoReturn"]
        ELSE update([c EXCEPT !.src_points = l.t])

\* the most source lines of a file that duplicate events are erased from
MaxEraseSrc == 3

Thresholds == {<<1, 10, 2>>, <<10, 50, 2>>, <<10, 50, 5>>}

\* the origin times of the source lines of a file, by line
OriginTimes == {<<1, 2, 3>>, <<3, 1, 1>>, <<1, 1, 1>>}

\* read(fname) of a file whose source lines carry the origin times times
EraseRead(f, times) ==
    LET c == read(f)
    IN  [c EXCEPT !.src_points =
            [i \in 1..Len(c.src_points) |->
                [c.src_points[i] EXCEPT !.origin_time = times[c.src_points[i].idx + 1]]]]

InitErase ==
    /\ cat \in {EraseRead(f, times) :
                   f \in {g \in Files(MaxEraseSrc) : ~g.cr}, times \in OriginTimes}
    /\ other = NoCatalog
    /\ err = NoErr
    /\ last = [op |-> "read", arg |-> <<>>]
    /\ pre = [cat |-> NoCatalog, other |-> NoCatalog]

EraseDuplicateEvents ==
    \E thre \in Thresholds :
        Ran("erase_duplicate_events", thre, erase_duplicate_events(cat, thre))

NextErase ==
    \/ EraseDuplicateEvents
    \/ RemoveSpecifiedRecs

SpecErase == InitErase /\ [][NextErase]_vars

-----------------------------------------------------------------------------
(* The integrity of the tables after update(). *)

\* the operations of the model that end with update()
UpdatingOps ==
    {"select_by_box_region", "select_by_depth", "remove_specified_recs", "update",
     "append"}

\* the last operation ended with update() and returned
Updated == last.op \in UpdatingOps /\ err = NoErr

\* the last operation was a selection or update() itself
Selected == last.op \in UpdatingOps \ {"append"}

\* the tables the update() of the last selection started from
UpdateEntry ==
    CASE last.op = "select_by_box_region" -> BoxRegionCut(pre.cat, last.arg)
      [] last.op = "select_by_depth" -> DepthCut(pre.cat, last.arg)
      [] last.op = "remove_specified_recs" -> RecsCut(pre.cat, last.arg)
      [] OTHER -> pre.cat

RecordIdx(c) ==
    Range(Column(c.rec_points, "src_index")) \cup Range(Column(c.rec_points_cs, "src_index"))
    \cup Range(Column(c.rec_points_cr, "src_index"))

\* C1: after an operation that ended with update(), every row of rec_points,
\* rec_points_cs and rec_points_cr has the src_index of a row of src_points, and
\* every row of rec_points_cr names, by event_id2 and by src_index2, a row of
\* src_points.
C1_NoDanglingRecord ==
    Updated =>
        /\ RecordIdx(cat) \subseteq SrcIdx(cat)
        /\ \A i \in 1..Len(cat.rec_points_cr) :
              /\ cat.rec_points_cr[i].event_id2 \in SrcEventIds(cat)
              /\ cat.rec_points_cr[i].src_index2 \in SrcIdx(cat)


\* no two rows of src_points share an event_id
DistinctEvents(c) == Cardinality(SrcEventIds(c)) = Len(c.src_points)

\* C2: after an operation that ended with update(), on a catalog whose event
\* ids were distinct, the labels of src_points are 0..N-1 without repeats, and
\* the src_index and src_index2 of the record tables lie in that numbering.
C2_DenseSrcIndex ==
    (Updated /\ DistinctEvents(pre.cat)) =>
        LET n == Len(cat.src_points)
        IN  /\ SrcIdx(cat) = 0..(n - 1)
            /\ RecordIdx(cat) \subseteq 0..(n - 1)
            /\ Range(Column(cat.rec_points_cr, "src_index2")) \subseteq 0..(n - 1)

RecordCount(c, k) ==
    GroupSize(c.rec_points, k) + GroupSize(c.rec_points_cs, k) + GroupSize(c.rec_points_cr, k)

\* C3: after an operation that ended with update(), the num_rec of every
\* source is the number of rows of rec_points, rec_points_cs and rec_points_cr
\* with its label.
C3_NumRecCounts ==
    Updated =>
        \A i \in 1..Len(cat.src_points) :
            cat.src_points[i].num_rec = RecordCount(cat, cat.src_points[i].idx)

\* an update() counted the records of a source that has absolute, common-source
\* and common-receiver records, and its num_rec is not what it was
C3_Witness ==
    /\ Updated
    /\ \E i \in 1..Len(cat.src_points) :
          LET r == cat.src_points[i]
          IN  /\ GroupSize(cat.rec_points, r.idx) > 0
              /\ GroupSize(cat.rec_points_cr, r.idx) > 0
              /\ \E j \in 1..Len(pre.cat.src_points) :
                    /\ pre.cat.src_points[j].event_id = r.event_id
                    /\ pre.cat.src_points[j].num_rec # r.num_rec

\* the values of column f over the rows of table t with src_index k
ValuesOf(t, f, k) == {t[i][f] : i \in {j \in 1..Len(t) : t[j].src_index = k}}

Dense(t, f) ==
    \A k \in GroupLabels(t) : ValuesOf(t, f, k) = 0..(GroupSize(t, k) - 1)

\* C4: after an operation that ended with update(), rec_index of rec_points
\* and of rec_points_cr, and rec_index1 and rec_index2 of rec_points_cs, take
\* the values 0..k-1 over the k rows of each source.
C4_DenseRecIndex ==
    Updated =>
        /\ Dense(cat.rec_points, "rec_index")
        /\ Dense(cat.rec_points_cr, "rec_index")
        /\ Dense(cat.rec_points_cs, "rec_index1")
        /\ Dense(cat.rec_points_cs, "rec_index2")

\* the event ids of the sources of c that a record of c references, the
\* records of sources that do not exist left aside
ReferencedEvents(c) ==
    {c.src_points[i].event_id :
        i \in {j \in 1..Len(c.src_points) :
                 c.src_points[j].idx \in RecordIdx(remove_rec_by_new_src(c))}}

\* C5: update() keeps the sources that a record of any table references and
\* removes the others.
C5_KeepsReferencedSources ==
    Selected => SrcEventIds(cat) = ReferencedEvents(UpdateEntry)

\* the labels of the sources of c that repeat the event_id of an earlier row
LaterOccurrences(c) ==
    {c.src_points[i].idx :
        i \in {j \in 1..Len(c.src_points) :
                 \E k \in 1..(j - 1) : c.src_points[k].event_id = c.src_points[j].event_id}}

\* C6: when src_points holds an event_id twice, update() keeps the first
\* occurrence and its records, and no record of the other occurrence is left in
\* rec_points, rec_points_cs or rec_points_cr.
C6_DuplicateRecordsDropped ==
    (Selected /\ err = NoErr) =>
        LET was == UpdateEntry
            first == SrcIdx(was) \ LaterOccurrences(was)
            left(t, old) == {r.tt : r \in {x \in Range(old) :
                                              x.src_index \in LaterOccurrences(was)}}
                           \cap {r.tt : r \in Range(t)}
            kept(t, old) == {r.tt : r \in {x \in Range(old) : x.src_index \in first}}
                           \subseteq {r.tt : r \in Range(t)}
        IN  /\ left(cat.rec_points, was.rec_points) = {}
            /\ left(cat.rec_points_cs, was.rec_points_cs) = {}
            /\ left(cat.rec_points_cr, was.rec_points_cr) = {}
            /\ kept(cat.rec_points, was.rec_points)

\* C7: after an operation that ended with update() and left a source, on a
\* catalog whose event ids were distinct, sources
\* lists the events of src_points and the paired events of rec_points_cr and no
\* other, and receivers lists the stations of the rows of the record tables and
\* no other.
C7_ProjectionsCurrent ==
    (Updated /\ cat.src_points # <<>> /\ DistinctEvents(pre.cat)) =>
        /\ Range(Column(cat.sources, "event_id")) =
              SrcEventIds(cat) \cup Range(Column(cat.rec_points_cr, "event_id2"))
        /\ Range(Column(cat.receivers, "staname")) =
              Range(Column(cat.rec_points, "staname"))
              \cup Range(Column(cat.rec_points_cs, "staname1"))
              \cup Range(Column(cat.rec_points_cs, "staname2"))
              \cup Range(Column(cat.rec_points_cr, "staname"))

\* C8: select_by_box_region(R) called again with the same R, on a catalog that
\* the first call left a source in, leaves every table, index and projection as
\* the first call left them.
C8_BoxRegionIdempotent ==
    (last.op = "select_by_box_region" /\ err = NoErr /\ cat.src_points # <<>>) =>
        LET again == select_by_box_region(cat, last.arg)
        IN  again.err = NoErr /\ again.c = cat

-----------------------------------------------------------------------------
(* append(sr). *)

\* the file a row of rec_points was read from: its tag, or the one file of a
\* catalog that is not tagged yet
FileOf(c, r) == IF c.has_fname THEN r.fname ELSE c.fnames[1]

\* the event ids of the sources a row of rec_points is attached to
EventsAt(c, r) ==
    {c.src_points[i].event_id :
        i \in {j \in 1..Len(c.src_points) : c.src_points[j].idx = r.src_index}}

\* the events that the absolute record of file fname with travel time tt is
\* attached to in c
AttachedIn(c, fname, tt) ==
    UNION {EventsAt(c, r) :
             r \in {x \in Range(c.rec_points) : FileOf(c, x) = fname /\ x.tt = tt}}

\* C9: after a.append(b) every absolute record of a and of b is attached to
\* the source with the event_id it was attached to before the call.
C9_AppendKeepsAttachment ==
    (last.op = "append" /\ err = NoErr) =>
        \A i \in 1..Len(cat.rec_points) :
            LET r == cat.rec_points[i]
            IN  EventsAt(cat, r) =
                   AttachedIn(pre.cat, r.fname, r.tt) \cup AttachedIn(pre.other, r.fname, r.tt)

\* C10: append(sr) with an sr that is no SrcRec, or with an sr whose src_only
\* differs, raises TypeError or ValueError and leaves both catalogs as they were.
C10_AppendRejectsBeforeMutation ==
    (last.op = "append"
       /\ (pre.other.type # "SrcRec" \/ pre.cat.src_only # pre.other.src_only)) =>
        /\ err \in {"TypeError", "ValueError"}
        /\ cat = pre.cat
        /\ other = pre.other

\* an append of a src_only catalog to one that holds records was rejected, the
\* receiving catalog being one that a reset of its index or a tag would change
C10_Witness ==
    /\ last.op = "append"
    /\ err = "ValueError"
    /\ pre.other.type = "SrcRec"
    /\ pre.cat.src_only # pre.other.src_only
    /\ Tag(reset_index(pre.cat)) # pre.cat

-----------------------------------------------------------------------------
(* select_by_box_region. *)

\* C11: after select_by_box_region(region) every source of src_points lies in
\* the region, and so does every station of a row of rec_points, both stations
\* of a row of rec_points_cs and the station of a row of rec_points_cr.
C11_BoxRegionKeepsInside ==
    (last.op = "select_by_box_region" /\ err = NoErr) =>
        /\ \A i \in 1..Len(cat.src_points) :
              InBox(cat.src_points[i].evlo, cat.src_points[i].evla, last.arg)
        /\ \A i \in 1..Len(cat.rec_points) :
              InBox(cat.rec_points[i].stlo, cat.rec_points[i].stla, last.arg)
        /\ \A i \in 1..Len(cat.rec_points_cs) :
              /\ InBox(cat.rec_points_cs[i].stlo1, cat.rec_points_cs[i].stla1, last.arg)
              /\ InBox(cat.rec_points_cs[i].stlo2, cat.rec_points_cs[i].stla2, last.arg)
        /\ \A i \in 1..Len(cat.rec_points_cr) :
              InBox(cat.rec_points_cr[i].stlo, cat.rec_points_cr[i].stla, last.arg)

-----------------------------------------------------------------------------
(* generate_double_difference. *)

GeneratedCs == last.op = "generate_double_difference" /\ err = NoErr
                  /\ last.arg[1] \in {"cs", "both"}

GeneratedCr == last.op = "generate_double_difference" /\ err = NoErr
                  /\ last.arg[1] \in {"cr", "both"}

\* the absolute records the generation worked on: those of the catalog it was
\* called on, with their dist_deg and baz
Generating ==
    IF pre.cat.has_distaz THEN pre.cat.rec_points ELSE calc_distaz(pre.cat).c.rec_points

\* the pairs <<i, j>>, i < j, of those records that pass the test of the
\* generation
ClosePairs ==
    {p \in (1..Len(Generating)) \X (1..Len(Generating)) :
        p[1] < p[2] /\ Close(Generating[p[1]], Generating[p[2]], last.arg[2])}

\* the event_id of the source with label k
EventOf(c, k) == IF k \in SrcIdx(c) THEN SrcAt(c, k).event_id ELSE "none"

\* the rows of rec_points_cs that belong to the pair p
CsRowsOf(p) ==
    LET a == Generating[p[1]]
        b == Generating[p[2]]
    IN  {i \in 1..Len(cat.rec_points_cs) :
           LET r == cat.rec_points_cs[i]
           IN  /\ EventOf(cat, r.src_index) = EventOf(pre.cat, a.src_index)
               /\ r.staname1 = a.staname /\ r.staname2 = b.staname
               /\ r.tt = a.tt - b.tt
               /\ r.weight = _cal_dd_weight(a.weight, b.weight)
               /\ r.phase = DDPhase(a.phase, "cs")}

\* C12: after generate_double_difference('cs') every pair of absolute records
\* of one source that passes the test has exactly one row of rec_points_cs,
\* with tt = tt_i - tt_j, the weight of the rule and the phase followed by
\* ',cs', and rec_points_cs holds no other row.
C12_CsRowPerPair ==
    GeneratedCs =>
        LET prs == {p \in ClosePairs :
                      /\ Generating[p[1]].src_index = Generating[p[2]].src_index
                      /\ Generating[p[1]].src_index # NaN}
        IN  /\ \A p \in prs : Cardinality(CsRowsOf(p)) = 1
            /\ Len(cat.rec_points_cs) = Cardinality(prs)

\* a generation left a common-source row, and a pair of records of one
\* source without one
C12_Witness ==
    /\ GeneratedCs
    /\ cat.rec_points_cs # <<>>
    /\ \E i, j \in 1..Len(Generating) :
          /\ i < j
          /\ Generating[i].src_index = Generating[j].src_index
          /\ ~Close(Generating[i], Generating[j], last.arg[2])

\* the rows of rec_points_cr that belong to the pair p
CrRowsOf(p) ==
    LET a == Generating[p[1]]
        b == Generating[p[2]]
    IN  {i \in 1..Len(cat.rec_points_cr) :
           LET r == cat.rec_points_cr[i]
           IN  /\ EventOf(cat, r.src_index) = EventOf(pre.cat, a.src_index)
               /\ r.staname = a.staname
               /\ r.tt = a.tt - b.tt}

\* C13: after generate_double_difference('cr') on a catalog whose event ids
\* are distinct, every pair of absolute records with the same staname that
\* passes the test has exactly one row of rec_points_cr, with tt = tt_i - tt_j.
C13_CrRowPerPair ==
    (GeneratedCr /\ DistinctEvents(pre.cat)) =>
        \A p \in ClosePairs :
            Generating[p[1]].staname = Generating[p[2]].staname =>
                Cardinality(CrRowsOf(p)) = 1

-----------------------------------------------------------------------------
(* select_by_num_rec and select_one_event_in_each_subgrid. *)

\* C15: when select_by_num_rec(k) has returned, every source of src_points
\* has num_rec >= k.
C15_NumRecAtLeast ==
    (last.op = "select_by_num_rec" /\ err = NoErr) =>
        \A i \in 1..Len(cat.src_points) : cat.src_points[i].num_rec >= last.arg

\* the cells that the sources of c occupy
Occupied(c, g) == {EvtGroup(c.src_points[i], g[1], g[2]) : i \in 1..Len(c.src_points)}

\* C19: select_one_event_in_each_subgrid(d_deg, d_km) returns and leaves one
\* source in every cell that was occupied, one that had the largest num_rec of
\* its cell, under the src_index it had.
C19_OneEventPerSubgrid ==
    last.op = "select_one_event_in_each_subgrid" =>
        /\ err = NoErr
        /\ Occupied(cat, last.arg) = Occupied(pre.cat, last.arg)
        /\ Cardinality(Occupied(cat, last.arg)) = Len(cat.src_points)
        /\ \A i \in 1..Len(cat.src_points) :
              \E j \in 1..Len(pre.cat.src_points) :
                  /\ pre.cat.src_points[j].event_id = cat.src_points[i].event_id
                  /\ pre.cat.src_points[j].idx = cat.src_points[i].idx
                  /\ \A k \in 1..Len(pre.cat.src_points) :
                        EvtGroup(pre.cat.src_points[k], last.arg[1], last.arg[2])
                          = EvtGroup(pre.cat.src_points[j], last.arg[1], last.arg[2])
                        => pre.cat.src_points[k].num_rec <= pre.cat.src_points[j].num_rec

\* a row of the projection t has the key k and the position <<la, lo>>
Listed(t, key, k, fla, flo, la, lo) ==
    \E i \in 1..Len(t) : t[i][key] = k /\ t[i][fla] = la /\ t[i][flo] = lo

Moved == last.op \in {"rotate", "to_utm"} /\ err = NoErr

\* C16: after rotate() or to_utm() the latitude and longitude of every row of
\* every table are those of the projections: a source row has the position of
\* the sources entry of its event_id, an absolute and a common-receiver row
\* that of the receivers entry of its staname, a common-source row those of
\* staname1 and staname2, and the paired source of a common-receiver row that
\* of the sources entry of event_id2
C16_PositionsFollowProjections ==
    Moved =>
        /\ \A i \in 1..Len(cat.src_points) :
              LET r == cat.src_points[i]
              IN  Listed(cat.sources, "event_id", r.event_id, "evla", "evlo", r.evla, r.evlo)
        /\ \A i \in 1..Len(cat.rec_points) :
              LET r == cat.rec_points[i]
              IN  Listed(cat.receivers, "staname", r.staname, "stla", "stlo", r.stla, r.stlo)
        /\ \A i \in 1..Len(cat.rec_points_cs) :
              LET r == cat.rec_points_cs[i]
              IN  /\ Listed(cat.receivers, "staname", r.staname1, "stla", "stlo",
                            r.stla1, r.stlo1)
                  /\ Listed(cat.receivers, "staname", r.staname2, "stla", "stlo",
                            r.stla2, r.stlo2)
        /\ \A i \in 1..Len(cat.rec_points_cr) :
              LET r == cat.rec_points_cr[i]
              IN  /\ Listed(cat.receivers, "staname", r.staname, "stla", "stlo",
                            r.stla, r.stlo)
                  /\ Listed(cat.sources, "event_id", r.event_id2, "evla", "evlo",
                            r.evla2, r.evlo2)

\* a catalog with rows in all four tables was rotated and its paired sources
\* are somewhere else than before
C16_Witness ==
    /\ Moved
    /\ last.op = "rotate"
    /\ cat.rec_points # <<>>
    /\ cat.rec_points_cs # <<>>
    /\ cat.rec_points_cr # <<>>
    /\ Len(cat.rec_points_cr) = Len(pre.cat.rec_points_cr)
    /\ \E i \in 1..Len(cat.rec_points_cr) :
          <<cat.rec_points_cr[i].evla2, cat.rec_points_cr[i].evlo2>>
             # <<pre.cat.rec_points_cr[i].evla2, pre.cat.rec_points_cr[i].evlo2>>

\* the receivers entries of a station listed as <<staname, stla, stlo, stel>>
ReceiverEntries(c, n, la, lo, el) ==
    {i \in 1..Len(c.receivers) :
        /\ c.receivers[i].staname = n
        /\ c.receivers[i].stla = la /\ c.receivers[i].stlo = lo
        /\ c.receivers[i].stel = el}

RecWeighted == last.op \in {"box_weighting", "geo_weighting"} /\ err = NoErr

\* C17: after geo_weighting or box_weighting of the receivers, every absolute
\* record has the weight of its receiver in the receivers projection, every
\* common-source row the rule applied to the weights of its two receivers,
\* and every common-receiver row the rule applied to the weights of its
\* receiver and of its paired source
C17_ReceiverWeightPropagated ==
    RecWeighted =>
        /\ \A i \in 1..Len(cat.rec_points) :
              LET r == cat.rec_points[i]
              IN  \A q \in ReceiverEntries(cat, r.staname, r.stla, r.stlo, r.stel) :
                     r.weight = cat.receivers[q].weight
        /\ \A i \in 1..Len(cat.rec_points_cs) :
              LET r == cat.rec_points_cs[i]
              IN  \A q1 \in ReceiverEntries(cat, r.staname1, r.stla1, r.stlo1, r.stel1),
                     q2 \in ReceiverEntries(cat, r.staname2, r.stla2, r.stlo2, r.stel2) :
                     r.weight = _cal_dd_weight(cat.receivers[q1].weight,
                                               cat.receivers[q2].weight)
        /\ \A i \in 1..Len(cat.rec_points_cr) :
              LET r == cat.rec_points_cr[i]
              IN  \A q \in ReceiverEntries(cat, r.staname, r.stla, r.stlo, r.stel),
                     k \in 1..Len(cat.src_points) :
                     cat.src_points[k].event_id = r.event_id2
                        => r.weight = _cal_dd_weight(cat.receivers[q].weight,
                                                     cat.src_points[k].weight)

\* the public mutating operations of the model
MutatingOps == UpdatingOps \cup {"box_weighting"}

\* C18: when a public mutating operation returns, update() has run: no record
\* is left without its source, src_points is sorted by src_index and the
\* record tables by src_index and rec_index
C18_MutationsEndWithUpdate ==
    (last.op \in MutatingOps /\ err = NoErr) =>
        /\ RecordIdx(cat) \subseteq SrcIdx(cat)
        /\ cat = SortTables(cat)

\* the cell of a source when every axis is divided with integer floor
FloorCell(r, d_deg, d_km) == <<r.evla \div d_deg, r.evlo \div d_deg, r.evdp \div d_km>>

\* C20: the cell of box weighting is the integer floor of coordinate/step on
\* every axis, north and south of the equator alike: after box_weighting of
\* the sources, the weight of a source counts the sources whose floor-divided
\* coordinates equal its own
C20_CellIsFloor ==
    (last.op = "box_weighting" /\ err = NoErr) =>
        \A i \in 1..Len(cat.src_points) :
            cat.src_points[i].weight =
                Cardinality({j \in 1..Len(cat.src_points) :
                    FloorCell(cat.src_points[j], last.arg[1], last.arg[2])
                       = FloorCell(cat.src_points[i], last.arg[1], last.arg[2])})

\* the events of the sources a record with src_index k is attached to
AttachedEvents(c, k) ==
    {c.src_points[i].event_id : i \in {j \in 1..Len(c.src_points) : c.src_points[j].idx = k}}

\* the records of table t are attached to the same sources in c as in b
SameAttachment(c, b, t) ==
    /\ Len(c[t]) = Len(b[t])
    /\ \A i \in 1..Len(c[t]) :
          AttachedEvents(c, c[t][i].src_index) = AttachedEvents(b, b[t][i].src_index)

\* C28: rotate() changes latitudes and longitudes only: src_points has the
\* same rows with the same src_index labels as before the call, every record
\* table has as many rows as before, and every record is attached to the
\* source it was attached to
C28_RotateKeepsRows ==
    (last.op = "rotate" /\ err = NoErr) =>
        /\ Len(cat.src_points) = Len(pre.cat.src_points)
        /\ \A i \in 1..Len(cat.src_points) :
              /\ cat.src_points[i].idx = pre.cat.src_points[i].idx
              /\ cat.src_points[i].event_id = pre.cat.src_points[i].event_id
        /\ SameAttachment(cat, pre.cat, "rec_points")
        /\ SameAttachment(cat, pre.cat, "rec_points_cs")
        /\ SameAttachment(cat, pre.cat, "rec_points_cr")

\* the azimuths from source row i of c to the stations of its absolute records
AzimuthsOf(c, i) ==
    {Compass(c.rec_points[j].stla - c.src_points[i].evla,
             c.rec_points[j].stlo - c.src_points[i].evlo) :
        j \in {k \in 1..Len(c.rec_points) : c.rec_points[k].src_index = c.src_points[i].idx}}

\* every gap between neighbours of the circle of azimuths S is below g
GapsBelow(S, g) ==
    \A a \in S :
        LET later == {b \in S : b > a}
            nxt == IF later = {} THEN 360 + CHOOSE m \in S : \A b \in S : m <= b
                   ELSE CHOOSE m \in later : \A b \in later : m <= b
        IN  nxt - a < g

\* the events select_by_azi_gap has to keep
WideCoverage(c, g) ==
    {c.src_points[i].event_id :
        i \in {k \in 1..Len(c.src_points) :
                  AzimuthsOf(c, k) # {} /\ GapsBelow(AzimuthsOf(c, k), g)}}

CrSource == IF pre.cat.has_distaz THEN pre.cat ELSE calc_distaz(pre.cat).c

CrProduced == _generate_cr(CrSource, last.arg[2]).c.rec_points_cr

Unsupported ==
    \/ /\ last.op = "generate_double_difference"
       /\ last.arg[1] \notin {"cs", "cr", "both"} \/ last.arg[3] \notin {"average", "multiply"}
    \/ /\ last.op = "box_weighting"
       /\ last.arg[2] \notin {"src", "rec", "both"} \/ last.arg[3] \notin {"average", "multiply"}
    \/ /\ last.op = "geo_weighting"
       /\ last.arg[1] \notin {"src", "rec", "both"}

\* C24: a call of generate_double_difference, box_weighting or geo_weighting
\* with an unsupported kind, rule or object ends with an error, whatever the
\* catalog holds, and leaves the tables as they were
C24_UnsupportedArgumentRejected ==
    Unsupported => (err # NoErr /\ cat = pre.cat)

\* read() returned a catalog of the file, read with the dist_in_data that the
\* absolute lines of the file ask for
ReadAsWritten ==
    /\ last.arg.ret = "SrcRec"
    /\ last.arg.named
    /\ \A i \in 1..Len(last.arg.lines) :
          last.arg.lines[i].kind = "abs" =>
              last.arg.lines[i].has_dist = last.arg.dist_in_data

\* every row of the table t that comes from a line of the kind without
\* weight has the weight 1.0
DefaultedWeights(kind, t) ==
    LET ls == OfKind(last.arg.lines, kind)
    IN  /\ Len(t) = Len(ls)
        /\ \A i \in 1..Len(ls) : ~ls[i].has_weight => t[i].weight = 1

\* C22: read() gives the weight 1.0 to every source line and every absolute,
\* common-source and common-receiver line that has no weight field, whether
\* or not other lines of the file have one
C22_MissingWeightIsOne ==
    (last.op = "read_file" /\ err = NoErr /\ ReadAsWritten) =>
        /\ DefaultedWeights("src", cat.src_points)
        /\ DefaultedWeights("abs", cat.rec_points)
        /\ DefaultedWeights("cs", cat.rec_points_cs)
        /\ DefaultedWeights("cr", cat.rec_points_cr)

\* a source line of the file has date fields or numeric event fields that
\* are no numbers
BadSourceLine ==
    \E i \in 1..Len(last.arg.lines) :
        ~last.arg.lines[i].date_ok \/ ~last.arg.lines[i].num_ok

\* C23: read() of a file with such a source line ends with an error and
\* hands the caller nothing, whichever of the two kinds of field is wrong
C23_BadSourceLineAborts ==
    (last.op = "read_file" /\ BadSourceLine) =>
        (err # NoErr /\ last.arg.ret = "none")

\* the line as write() has to give it back: with its weight, 1.0 if it had none
WithWeight(l) ==
    [l EXCEPT !.has_weight = TRUE,
              !.row = [l.row EXCEPT !.weight = IF l.has_weight THEN @ ELSE 1,
                                    !.dist_deg = IF l.has_dist THEN @ ELSE NaN]]

\* C26: write() of the catalog that read() made of a file gives the lines of
\* the file back: source lines, absolute lines with their distance when they
\* have one, common-source and common-receiver lines with their phase, every
\* line with its weight or the default
C26_WriteReadRoundTrip ==
    (last.op = "write" /\ ReadAsWritten) =>
        /\ err = NoErr
        /\ last.arg.written = [i \in 1..Len(last.arg.lines) |-> WithWeight(last.arg.lines[i])]

\* the record lines that follow the source line at position p of the lines ls,
\* up to the next source line
LinesUnder(ls, p) ==
    {q \in (p + 1)..Len(ls) : \A m \in (p + 1)..q : ls[m].kind # "src"}

\* the source lines that write() puts the rows of a record with src_index k under
SourceLinesOf(c, k) == {i \in 1..Len(c.src_points) : c.src_points[i].idx = k}

\* C29: after update(), write() puts every row of rec_points, rec_points_cs
\* and rec_points_cr on exactly one line, under the source line of its
\* src_index, and the num_rec of every source line is the number of record
\* lines under it
C29_WriteEmitsEveryRecordOnce ==
    (Updated /\ DistinctEvents(pre.cat)) =>
        LET w == write(cat)
        IN  /\ w.err = NoErr
            /\ \A t \in {cat.rec_points, cat.rec_points_cs, cat.rec_points_cr} :
                  \A i \in 1..Len(t) : Cardinality(SourceLinesOf(cat, t[i].src_index)) = 1
            /\ \A p \in 1..Len(w.lines) :
                  w.lines[p].kind = "src" =>
                      w.lines[p].row.num_rec = Cardinality(LinesUnder(w.lines, p))

\* the noise add_noise put on row i of the table named f of the catalog
NoiseOn(f, i) == cat[f][i].tt - pre.cat[f][i].tt

\* every noise value of the table named f lies within sqrt(k) * range_in_sec
\* of the mean
WithinRange(f, k) ==
    \A i \in 1..Len(cat[f]) :
        (NoiseOn(f, i) - last.arg[1]) * (NoiseOn(f, i) - last.arg[1])
            <= k * RangeInSec * RangeInSec

\* C25: add_noise draws the noise of rec_points within range_in_sec and the
\* noise of rec_points_cs and of rec_points_cr within sqrt(2) * range_in_sec,
\* whichever tables are populated
C25_NoiseRangeScaledBySqrt2 ==
    (last.op = "add_noise" /\ last.arg[2] = "uniform") =>
        /\ WithinRange("rec_points", 1)
        /\ WithinRange("rec_points_cs", 2)
        /\ WithinRange("rec_points_cr", 2)

\* every source of the table has a num_rec
DefinedNumRec(t) == \A i \in 1..Len(t) : t[i].num_rec # NaN

\* the tables at the start of the passes of the while-loop that begins at t
RECURSIVE Passes(_, _)
Passes(t, thre) ==
    LET s == EraseStep(t, thre)
    IN  IF s.num_duplicated = 0 \/ s.t = t THEN {t} ELSE {t} \cup Passes(s.t, thre)

\* two rows next to each other in the table are within the thresholds
AdjacentDuplicates(t, thre) == \E i \in 1..(Len(t) - 1) : NearBy(t[i], t[i + 1], thre)

\* the table the while-loop of the last call started from
EraseEntry == SortByTime(pre.cat.src_points)

\* C30: on sources with a defined num_rec erase_duplicate_events comes to an
\* end, every pass of its while-loop that finds two adjacent sources within
\* the thresholds drops a source, and the table the loop ends with has no two
\* adjacent sources within the thresholds
C30_EraseDuplicatesTerminates ==
    (last.op = "erase_duplicate_events" /\ DefinedNumRec(pre.cat.src_points)) =>
        /\ err # "NoReturn"
        /\ \A t \in Passes(EraseEntry, last.arg) :
              AdjacentDuplicates(t, last.arg) =>
                  Len(EraseStep(t, last.arg).t) < Len(t)
        /\ ~AdjacentDuplicates(EraseLoop(EraseEntry, last.arg).t, last.arg)

\* a call on sources with a num_rec whose loop took a second pass after
\* dropping a source
C30_Witness ==
    /\ last.op = "erase_duplicate_events"
    /\ err = NoErr
    /\ DefinedNumRec(pre.cat.src_points)
    /\ AdjacentDuplicates(EraseEntry, last.arg)
    /\ Cardinality(Passes(EraseEntry, last.arg)) > 1
    /\ EraseEntry # pre.cat.src_points

=============================================================================
